---- MODULE Spec2Model ----
(***************************************************************************)
(* Model of the incremental, checkpointed synchronisation engine of the    *)
(* Euler vault/vendor analysis (analyze-euler-vaults):                     *)
(*   lib/utils.ts     requireStartBlock, queryEventsInBatches              *)
(*   lib/progress.ts  loadProgress, saveProgress, deployment files         *)
(*   steps/1-fetch-routers.ts, steps/2-fetch-vaults.ts,                    *)
(*   steps/3-fetch-balances.ts, index.ts                                   *)
(*                                                                         *)
(*   oracle-vendors  normalizeVendorName, getVendorForOracle               *)
(*                                                                         *)
(* The specifications of the module share its variables:                   *)
(*   SpecBatch      one call of queryEventsInBatches, statement by         *)
(*                  statement                                              *)
(*   Spec           repeated runs of the pipeline of index.ts over one     *)
(*                  chain                                                  *)
(*   SpecResolve    the range resolvers and factory steps on enumerated    *)
(*                  inputs                                                 *)
(*   SpecMerge      the merge of fetched deployments into a cache          *)
(*   SpecCrash      Spec with the process killed between or inside writes  *)
(*   SpecVendor     one call of normalizeVendorName or getVendorForOracle  *)
(*   SpecAggregate  one call of aggregateVendors                           *)
(***************************************************************************)
EXTENDS Integers, Sequences, FiniteSets, TLC

VARIABLES
    \* ---- one call of queryEventsInBatches (SpecBatch) ----
    call,       \* the arguments of the outermost call
    stack,      \* the activation records of the recursion, outermost first
    bstatus,    \* "running" | "returned" | "raised"
    result,     \* the value returned to the caller
    okRanges,   \* the ranges whose queryFilter call succeeded, in call order
    dropped,    \* the ranges whose queryFilter call failed without a retry
    pause,      \* "none" before the first query; "due" since a query was
                \* issued; "elapsed" once sleep(200) has run after it
    \* ---- the environment of the pipeline (Spec) ----
    head,                   \* the chain head, as provider.getBlockNumber() returns it
    progressFile,           \* output/vault-vendor-progress.json
    routerDeploymentsFile,  \* output/router-deployments.json
    vaultDeploymentsFile,   \* output/vault-deployments.json
    \* ---- the process running index.ts main() ----
    pc,                     \* its control point; "idle" when no run is in progress
    env,                    \* ROUTER_FACTORY_START_BLOCK, EVAULT_FACTORY_START_BLOCK
    oracleData,             \* what loadOracleData() returned
    progress,               \* the Progress object the steps mutate
    currentBlock,           \* const currentBlock of the running step
    plan,                   \* { fromBlock, shouldQueryFactory }
    allDeployments,         \* allRouterDeployments / allVaultDeployments
    idx,                    \* the loop variable i (counted from 1)
    entity,                 \* the locals of the iteration between its await points
    network,                \* the network calls this run has issued so far
    inFlight,               \* the calls outstanding together during the last step
    lastRun,                \* what the previous run left, if it ran to its end
    exitCode,               \* how the last run ended
    errorLog,               \* the entities whose catch block logged an error in this run
    faults,                 \* the failures injected so far (entity errors, failed writes)
    gaps,                   \* the block ranges the event queries of all runs dropped
    \* ---- one merge of fetched deployments into a cache (SpecMerge) ----
    cache,      \* the deployments of the cache file
    fetched,    \* the deployments of the last factory query
    \* ---- one call of a function of the vendor mapping or the aggregation ----
    args,       \* the function called and its arguments
    ret         \* the value it returned, NotReturned before

bvars == <<call, stack, bstatus, result, okRanges, dropped, pause>>

diskvars == <<progressFile, routerDeploymentsFile, vaultDeploymentsFile>>

procvars == <<pc, env, oracleData, progress, currentBlock, plan, allDeployments,
              idx, entity, network, inFlight, lastRun, exitCode, errorLog, faults>>

pvars == <<head, progressFile, routerDeploymentsFile, vaultDeploymentsFile,
           pc, env, oracleData, progress, currentBlock, plan, allDeployments,
           idx, entity, network, inFlight, lastRun, exitCode, errorLog, faults,
           gaps>>

mvars == <<cache, fetched>>

fvars == <<args, ret>>

vars == <<call, stack, bstatus, result, okRanges, dropped, pause,
          head, progressFile, routerDeploymentsFile, vaultDeploymentsFile,
          pc, env, oracleData, progress, currentBlock, plan, allDeployments,
          idx, entity, network, inFlight, lastRun, exitCode, errorLog, faults,
          gaps, cache, fetched, args, ret>>

----------------------------------------------------------------------------
(* Bounds and program constants                                            *)

\* the longest block range handed to queryEventsInBatches in SpecBatch
MaxRangeLen == 2500

\* the number of entity errors and failed writes injected into the pipeline
MaxFaults == 1

\* the longest oracle registry handed to getVendorForOracle in SpecVendor
MaxRegistry == 2

\* the bits of the significand of a number in SpecAggregate (a JavaScript
\* number has 53), the largest exponent of a usdValue, and the number of
\* vaults handed to aggregateVendors
SignificandBits == 4

MaxExponent == 1

MaxVaults == 2

\* batchSize: number = 10000
DEFAULT_BATCH_SIZE == 10000

\* if (batchSize > 1000)
RETRY_FLOOR == 1000

NoBlock == -1

Min(a, b) == IF a < b THEN a ELSE b

Max(a, b) == IF a > b THEN a ELSE b

----------------------------------------------------------------------------
(* The chain client                                                        *)

\* contract.queryFilter(filter, from, to): the events of the log in the
\* closed block range, in log (ascending block) order
QueryFilter(log, from, to) ==
    SelectSeq(log, LAMBDA e : from <= e.blockNumber /\ e.blockNumber <= to)

\* the log queried in SpecBatch: events on both sides of every boundary a
\* batch of 10000, 5000, 2500, 1250 or 625 blocks starting at block 0 or 1 has
BatchLog ==
    [i \in 1..12 |->
        [blockNumber |-> <<0, 1, 624, 625, 626, 1249, 1250, 1251,
                           2499, 2500, 2501, 9999>>[i]]]

----------------------------------------------------------------------------
(* queryEventsInBatches, statement by statement                            *)

Frame(from, to, size) ==
    [currentBlock |-> from, toBlock |-> to, batchSize |-> size,
     endBlock |-> NoBlock, allEvents |-> <<>>, pc |-> "while"]

Top(s) == s[Len(s)]

SetTop(s, f) == [s EXCEPT ![Len(s)] = f]

\* the lengths of the ranges tried: empty, one block, one and two batches of
\* the smallest retry size, and the longest
RangeLens == {0, 1, 625, 1250, MaxRangeLen}

InitialBatchSizes == {DEFAULT_BATCH_SIZE, 2000}

InitBatchVars ==
    /\ \E from \in {0, 1}, len \in RangeLens, size \in InitialBatchSizes :
          /\ call = [fromBlock |-> from, toBlock |-> from + len - 1,
                     batchSize |-> size]
          /\ stack = <<Frame(from, from + len - 1, size)>>
    /\ bstatus = "running"
    /\ result = <<>>
    /\ okRanges = <<>>
    /\ dropped = <<>>
    /\ pause = "none"

\* while (currentBlock <= toBlock) { const endBlock = Math.min(...)
WhileEnter ==
    /\ bstatus = "running"
    /\ Top(stack).pc = "while"
    /\ Top(stack).currentBlock <= Top(stack).toBlock
    /\ stack' = SetTop(stack,
          [Top(stack) EXCEPT
              !.endBlock = Min(Top(stack).currentBlock + Top(stack).batchSize - 1,
                               Top(stack).toBlock),
              !.pc = "query"])
    /\ UNCHANGED <<call, bstatus, result, okRanges, dropped, pause, pvars, mvars, fvars>>

\* try { events = await contract.queryFilter(...); allEvents.push(...) }
QuerySucceeds ==
    /\ bstatus = "running"
    /\ Top(stack).pc = "query"
    /\ LET f == Top(stack)
           events == QueryFilter(BatchLog, f.currentBlock, f.endBlock)
       IN /\ stack' = SetTop(stack,
                [f EXCEPT !.allEvents = f.allEvents \o events, !.pc = "advance"])
          /\ okRanges' = Append(okRanges, <<f.currentBlock, f.endBlock>>)
    /\ pause' = "due"
    /\ UNCHANGED <<call, bstatus, result, dropped, pvars, mvars, fvars>>

\* a catch block that gives up by re-raising at the floor
CatchBlock_Rethrow(s) ==
    LET f == Top(s)
    IN IF f.batchSize > RETRY_FLOOR
       THEN [stack |-> Append(SetTop(s, [f EXCEPT !.pc = "retry"]),
                              Frame(f.currentBlock, f.endBlock, f.batchSize \div 2)),
             status |-> "running", dropped |-> <<>>]
       ELSE [stack |-> <<>>, status |-> "raised", dropped |-> <<>>]

\* a catch block that retries from the failed batch to the end of the range:
\* queryEventsInBatches(contract, filter, currentBlock, toBlock, ...)
CatchBlock_RetryToEnd(s) ==
    LET f == Top(s)
    IN IF f.batchSize > RETRY_FLOOR
       THEN [stack |-> Append(SetTop(s, [f EXCEPT !.pc = "retry"]),
                              Frame(f.currentBlock, f.toBlock, f.batchSize \div 2)),
             status |-> "running", dropped |-> <<>>]
       ELSE [stack |-> SetTop(s, [f EXCEPT !.pc = "advance"]),
             status |-> "running",
             dropped |-> << <<f.currentBlock, f.endBlock>> >>]

\* catch (error) { if (batchSize > 1000) { smallerBatch = await
\* queryEventsInBatches(contract, filter, currentBlock, endBlock,
\* Math.floor(batchSize / 2)); ... } }
CatchBlock(s) ==
    LET f == Top(s)
    IN IF f.batchSize > RETRY_FLOOR
       THEN [stack |-> Append(SetTop(s, [f EXCEPT !.pc = "retry"]),
                              Frame(f.currentBlock, f.endBlock, f.batchSize \div 2)),
             status |-> "running", dropped |-> <<>>]
       ELSE [stack |-> SetTop(s, [f EXCEPT !.pc = "advance"]),
             status |-> "running",
             dropped |-> << <<f.currentBlock, f.endBlock>> >>]

\* the queryFilter call throws
QueryFails ==
    /\ bstatus = "running"
    /\ Top(stack).pc = "query"
    /\ LET r == CatchBlock(stack)
       IN /\ stack' = r.stack
          /\ bstatus' = r.status
          /\ dropped' = dropped \o r.dropped
    /\ pause' = "due"
    /\ UNCHANGED <<call, result, okRanges, pvars, mvars, fvars>>

\* currentBlock = endBlock + 1; await sleep(200);
Advance ==
    /\ bstatus = "running"
    /\ Top(stack).pc = "advance"
    /\ stack' = SetTop(stack,
          [Top(stack) EXCEPT !.currentBlock = Top(stack).endBlock + 1,
                             !.pc = "while"])
    /\ pause' = "elapsed"
    /\ UNCHANGED <<call, bstatus, result, okRanges, dropped, pvars, mvars, fvars>>

\* a caller that puts the events of the retry in front of its own:
\* allEvents.unshift(...smallerBatch)
Return_Unshift ==
    /\ bstatus = "running"
    /\ Top(stack).pc = "while"
    /\ Top(stack).currentBlock > Top(stack).toBlock
    /\ IF Len(stack) = 1
       THEN /\ result' = Top(stack).allEvents
            /\ bstatus' = "returned"
            /\ stack' = <<>>
       ELSE LET caller == stack[Len(stack) - 1]
            IN /\ stack' = SetTop(SubSeq(stack, 1, Len(stack) - 1),
                     [caller EXCEPT
                         !.allEvents = Top(stack).allEvents \o caller.allEvents,
                         !.pc = "advance"])
               /\ UNCHANGED <<result, bstatus>>
    /\ UNCHANGED <<call, okRanges, dropped, pause, pvars, mvars, fvars>>

\* a loop that is left only once currentBlock is beyond toBlock + 1
Return_PastEnd ==
    /\ bstatus = "running"
    /\ Top(stack).pc = "while"
    /\ Top(stack).currentBlock > Top(stack).toBlock + 1
    /\ IF Len(stack) = 1
       THEN /\ result' = Top(stack).allEvents
            /\ bstatus' = "returned"
            /\ stack' = <<>>
       ELSE LET caller == stack[Len(stack) - 1]
            IN /\ stack' = SetTop(SubSeq(stack, 1, Len(stack) - 1),
                     [caller EXCEPT
                         !.allEvents = caller.allEvents \o Top(stack).allEvents,
                         !.pc = "advance"])
               /\ UNCHANGED <<result, bstatus>>
    /\ UNCHANGED <<call, okRanges, dropped, pause, pvars, mvars, fvars>>

\* return allEvents; in the caller: allEvents.push(...smallerBatch)
Return ==
    /\ bstatus = "running"
    /\ Top(stack).pc = "while"
    /\ Top(stack).currentBlock > Top(stack).toBlock
    /\ IF Len(stack) = 1
       THEN /\ result' = Top(stack).allEvents
            /\ bstatus' = "returned"
            /\ stack' = <<>>
       ELSE LET caller == stack[Len(stack) - 1]
            IN /\ stack' = SetTop(SubSeq(stack, 1, Len(stack) - 1),
                     [caller EXCEPT
                         !.allEvents = caller.allEvents \o Top(stack).allEvents,
                         !.pc = "advance"])
               /\ UNCHANGED <<result, bstatus>>
    /\ UNCHANGED <<call, okRanges, dropped, pause, pvars, mvars, fvars>>

NextBatch ==
    \/ WhileEnter
    \/ QuerySucceeds
    \/ QueryFails
    \/ Advance
    \/ Return


----------------------------------------------------------------------------
(* queryEventsInBatches as the steps of the pipeline call it: the value it *)
(* returns when the queries that cover a block of `bad` throw              *)

RECURSIVE QueryEventsInBatches(_, _, _, _, _)
QueryEventsInBatches(log, fromBlock, toBlock, batchSize, bad) ==
    IF fromBlock > toBlock THEN <<>>
    ELSE LET endBlock == Min(fromBlock + batchSize - 1, toBlock)
             throws == \E b \in bad : fromBlock <= b /\ b <= endBlock
             events ==
                 IF ~throws THEN QueryFilter(log, fromBlock, endBlock)
                 ELSE IF batchSize > RETRY_FLOOR
                      THEN QueryEventsInBatches(log, fromBlock, endBlock,
                                                batchSize \div 2, bad)
                      ELSE <<>>
         IN events \o QueryEventsInBatches(log, endBlock + 1, toBlock,
                                           batchSize, bad)

\* the ranges of that call whose query threw at a batch size that is not
\* retried: nothing of them reaches the caller
RECURSIVE DroppedRanges(_, _, _, _)
DroppedRanges(fromBlock, toBlock, batchSize, bad) ==
    IF fromBlock > toBlock THEN {}
    ELSE LET endBlock == Min(fromBlock + batchSize - 1, toBlock)
             throws == \E b \in bad : fromBlock <= b /\ b <= endBlock
             here ==
                 IF ~throws THEN {}
                 ELSE IF batchSize > RETRY_FLOOR
                      THEN DroppedRanges(fromBlock, endBlock, batchSize \div 2, bad)
                      ELSE {<<fromBlock, endBlock>>}
         IN here \cup DroppedRanges(endBlock + 1, toBlock, batchSize, bad)

\* the failure patterns tried for one call: no query throws, or every query
\* that covers the block of one event of the range throws
FailurePatterns(log, fromBlock, toBlock) ==
    {{}} \cup {{log[k].blockNumber} :
                 k \in {j \in 1..Len(log) : /\ fromBlock <= log[j].blockNumber
                                            /\ log[j].blockNumber <= toBlock}}

----------------------------------------------------------------------------
(* Strings: String.prototype.toLowerCase and String.prototype.includes     *)
(* Provider labels are sequences of characters; addresses are atoms with   *)
(* their lower-case form tabulated.                                        *)

UpperToLower ==
    "A" :> "a" @@ "B" :> "b" @@ "C" :> "c" @@ "D" :> "d" @@ "E" :> "e" @@
    "F" :> "f" @@ "G" :> "g" @@ "H" :> "h" @@ "I" :> "i" @@ "J" :> "j" @@
    "K" :> "k" @@ "L" :> "l" @@ "M" :> "m" @@ "N" :> "n" @@ "O" :> "o" @@
    "P" :> "p" @@ "Q" :> "q" @@ "R" :> "r" @@ "S" :> "s" @@ "T" :> "t" @@
    "U" :> "u" @@ "V" :> "v" @@ "W" :> "w" @@ "X" :> "x" @@ "Y" :> "y" @@
    "Z" :> "z"

ToLowerCase(chars) ==
    [k \in 1..Len(chars) |->
        IF chars[k] \in DOMAIN UpperToLower THEN UpperToLower[chars[k]]
        ELSE chars[k]]

Includes(chars, pattern) ==
    \E k \in 0..(Len(chars) - Len(pattern)) :
        SubSeq(chars, k + 1, k + Len(pattern)) = pattern

\* the addresses of the modelled chain, as the chain client returns them
\* (mixed case), with their lower-case forms
AddressLower ==
    "0xR1" :> "0xr1" @@ "0xR2" :> "0xr2" @@
    "0xV1" :> "0xv1" @@ "0xV2" :> "0xv2" @@
    "0xA" :> "0xa" @@ "0xB" :> "0xb" @@ "0xUSD" :> "0xusd" @@
    "0xO1" :> "0xo1" @@ "0xO2" :> "0xo2" @@ "0xO3" :> "0xo3"

AddressToLowerCase(a) == IF a \in DOMAIN AddressLower THEN AddressLower[a] ELSE a

ZeroAddress == "0x0000000000000000000000000000000000000000"

Undefined == "undefined"

----------------------------------------------------------------------------
(* lib/oracle-vendor-mapping.ts                                            *)

\* the substrings normalizeVendorName looks for and the names it returns for
\* them, in the order of its statements
VendorPatterns ==
    <<[pattern |-> <<"e", "u", "l", "e", "r", " ", "v", "a", "u", "l", "t">>,
       name |-> "Euler Vault"],
      [pattern |-> <<"c", "h", "a", "i", "n", "l", "i", "n", "k">>,
       name |-> "Chainlink"],
      [pattern |-> <<"r", "e", "d", "s", "t", "o", "n", "e">>,
       name |-> "RedStone"],
      [pattern |-> <<"r", "e", "d", " ", "s", "t", "o", "n", "e">>,
       name |-> "RedStone"],
      [pattern |-> <<"p", "y", "t", "h">>,
       name |-> "Pyth"],
      [pattern |-> <<"p", "e", "n", "d", "l", "e">>,
       name |-> "Pendle"],
      [pattern |-> <<"c", "h", "r", "o", "n", "i", "c", "l", "e">>,
       name |-> "Chronicle"],
      [pattern |-> <<"m", "i", "d", "a", "s">>,
       name |-> "Midas"],
      [pattern |-> <<"r", "e", "s", "o", "l", "v">>,
       name |-> "Resolv"],
      [pattern |-> <<"i", "d", "l", "e">>,
       name |-> "Idle"],
      [pattern |-> <<"m", "e", "v", " ", "c", "a", "p", "i", "t", "a", "l">>,
       name |-> "MEV Capital"],
      [pattern |-> <<"c", "r", "o", "s", "s">>,
       name |-> "Cross"],
      [pattern |-> <<"f", "i", "x", "e", "d", " ", "r", "a", "t", "e">>,
       name |-> "Fixed Rate"],
      [pattern |-> <<"r", "a", "t", "e", " ", "p", "r", "o", "v", "i", "d", "e", "r">>,
       name |-> "Rate Provider"],
      [pattern |-> <<"l", "i", "d", "o", " ", "f", "u", "n", "d", "a", "m", "e", "n",
                     "t", "a", "l">>,
       name |-> "Lido Fundamental"]>>

\* the chain of `if (providerLower.includes(...)) return ...` statements
MatchVendor(providerLower) ==
    IF Includes(providerLower,
                <<"e", "u", "l", "e", "r", " ", "v", "a", "u", "l", "t">>)
    THEN "Euler Vault"
    ELSE IF Includes(providerLower, <<"c", "h", "a", "i", "n", "l", "i", "n", "k">>)
    THEN "Chainlink"
    ELSE IF \/ Includes(providerLower, <<"r", "e", "d", "s", "t", "o", "n", "e">>)
            \/ Includes(providerLower,
                        <<"r", "e", "d", " ", "s", "t", "o", "n", "e">>)
    THEN "RedStone"
    ELSE IF Includes(providerLower, <<"p", "y", "t", "h">>)
    THEN "Pyth"
    ELSE IF Includes(providerLower, <<"p", "e", "n", "d", "l", "e">>)
    THEN "Pendle"
    ELSE IF Includes(providerLower, <<"c", "h", "r", "o", "n", "i", "c", "l", "e">>)
    THEN "Chronicle"
    ELSE IF Includes(providerLower, <<"m", "i", "d", "a", "s">>)
    THEN "Midas"
    ELSE IF Includes(providerLower, <<"r", "e", "s", "o", "l", "v">>)
    THEN "Resolv"
    ELSE IF Includes(providerLower, <<"i", "d", "l", "e">>)
    THEN "Idle"
    ELSE IF Includes(providerLower,
                     <<"m", "e", "v", " ", "c", "a", "p", "i", "t", "a", "l">>)
    THEN "MEV Capital"
    ELSE IF Includes(providerLower, <<"c", "r", "o", "s", "s">>)
    THEN "Cross"
    ELSE IF Includes(providerLower,
                     <<"f", "i", "x", "e", "d", " ", "r", "a", "t", "e">>)
    THEN "Fixed Rate"
    ELSE IF Includes(providerLower,
                     <<"r", "a", "t", "e", " ", "p", "r", "o", "v", "i", "d", "e", "r">>)
    THEN "Rate Provider"
    ELSE IF Includes(providerLower,
                     <<"l", "i", "d", "o", " ", "f", "u", "n", "d", "a", "m", "e", "n",
                       "t", "a", "l">>)
    THEN "Lido Fundamental"
    ELSE "Other"

\* a normalisation that tests the label as written, without toLowerCase()
NormalizeVendorName_CaseSensitive(providerInfo) ==
    IF providerInfo = <<>> THEN "no oracle (escrow)"
    ELSE MatchVendor(providerInfo)

\* providerInfo is a sequence of characters, <<>> for a missing or empty one
\* (both are falsy: `if (!providerInfo) return "no oracle (escrow)"`)
NormalizeVendorName(providerInfo) ==
    IF providerInfo = <<>> THEN "no oracle (escrow)"
    ELSE MatchVendor(ToLowerCase(providerInfo))

\* Array.prototype.find: the first of the elements that satisfy the test,
\* as a sequence of at most one element
Find(satisfying) ==
    IF satisfying = <<>> THEN <<>> ELSE <<satisfying[1]>>

\* a lookup that consults the registry before the known vaults
GetVendorForOracle_RegistryFirst(adapterAddress, data) ==
    LET matchingVault ==
            Find(SelectSeq(data.vaultDeployments,
                 LAMBDA vault : AddressToLowerCase(vault.address)
                                   = AddressToLowerCase(adapterAddress)))
        oracle ==
            Find(SelectSeq(data.eulerOracles,
                 LAMBDA el : /\ el.fullAddress # Undefined
                             /\ el.fullAddress # ZeroAddress
                             /\ AddressToLowerCase(el.fullAddress)
                                   = AddressToLowerCase(adapterAddress)))
    IN IF oracle = <<>>
       THEN IF matchingVault # <<>>
            THEN [vendor |-> "Euler Vault", underlying |-> <<>>,
                  vendorType |-> "vault"]
            ELSE [vendor |-> "oracle not known", underlying |-> <<>>,
                  vendorType |-> "error"]
       ELSE IF oracle[1].fullAddress = ZeroAddress
       THEN [vendor |-> "no oracle (escrow)", underlying |-> <<>>,
             vendorType |-> "no oracle (escrow)"]
       ELSE IF oracle[1].fullAddress = Undefined
       THEN [vendor |-> "no oracle address stored", underlying |-> <<>>,
             vendorType |-> "error"]
       ELSE LET vendor == NormalizeVendorName(oracle[1].providerInfo)
                crossOracle ==
                    Find(SelectSeq(data.crossAnalysis,
                         LAMBDA c : /\ c.crossAddress # Undefined
                                    /\ AddressToLowerCase(c.crossAddress)
                                          = AddressToLowerCase(adapterAddress)))
            IN IF vendor = "Cross" /\ crossOracle # <<>> /\ ~crossOracle[1].error
               THEN [vendor |-> "Cross",
                     underlying |->
                         <<NormalizeVendorName(crossOracle[1].baseCrossName),
                           NormalizeVendorName(crossOracle[1].crossQuoteName)>>,
                     vendorType |-> "external"]
               ELSE [vendor |-> vendor, underlying |-> <<>>,
                     vendorType |-> "external"]

\* a lookup that takes the first entry of the registry when none matches
GetVendorForOracle_FirstEntry(adapterAddress, data) ==
    LET matchingVault ==
            Find(SelectSeq(data.vaultDeployments,
                 LAMBDA vault : AddressToLowerCase(vault.address)
                                   = AddressToLowerCase(adapterAddress)))
        found ==
            Find(SelectSeq(data.eulerOracles,
                 LAMBDA el : /\ el.fullAddress # Undefined
                             /\ el.fullAddress # ZeroAddress
                             /\ AddressToLowerCase(el.fullAddress)
                                   = AddressToLowerCase(adapterAddress)))
        oracle == IF found = <<>> THEN Find(data.eulerOracles) ELSE found
    IN IF matchingVault # <<>>
       THEN [vendor |-> "Euler Vault", underlying |-> <<>>, vendorType |-> "vault"]
       ELSE IF oracle = <<>>
       THEN [vendor |-> "oracle not known", underlying |-> <<>>,
             vendorType |-> "error"]
       ELSE IF oracle[1].fullAddress = ZeroAddress
       THEN [vendor |-> "no oracle (escrow)", underlying |-> <<>>,
             vendorType |-> "no oracle (escrow)"]
       ELSE IF oracle[1].fullAddress = Undefined
       THEN [vendor |-> "no oracle address stored", underlying |-> <<>>,
             vendorType |-> "error"]
       ELSE LET vendor == NormalizeVendorName(oracle[1].providerInfo)
                crossOracle ==
                    Find(SelectSeq(data.crossAnalysis,
                         LAMBDA c : /\ c.crossAddress # Undefined
                                    /\ AddressToLowerCase(c.crossAddress)
                                          = AddressToLowerCase(adapterAddress)))
            IN IF vendor = "Cross" /\ crossOracle # <<>> /\ ~crossOracle[1].error
               THEN [vendor |-> "Cross",
                     underlying |->
                         <<NormalizeVendorName(crossOracle[1].baseCrossName),
                           NormalizeVendorName(crossOracle[1].crossQuoteName)>>,
                     vendorType |-> "external"]
               ELSE [vendor |-> vendor, underlying |-> <<>>,
                     vendorType |-> "external"]

\* an entry of eulerOracles carries fullAddress, what
\* addressLink?.match(/0x[a-fA-F0-9]{40}/)?.[0] yields for it (Undefined when
\* there is no link or no match)
GetVendorForOracle(adapterAddress, data) ==
    LET matchingVault ==
            Find(SelectSeq(data.vaultDeployments,
                 LAMBDA vault : AddressToLowerCase(vault.address)
                                   = AddressToLowerCase(adapterAddress)))
        oracle ==
            Find(SelectSeq(data.eulerOracles,
                 LAMBDA el : /\ el.fullAddress # Undefined
                             /\ el.fullAddress # ZeroAddress
                             /\ AddressToLowerCase(el.fullAddress)
                                   = AddressToLowerCase(adapterAddress)))
    IN IF matchingVault # <<>>
       THEN [vendor |-> "Euler Vault", underlying |-> <<>>, vendorType |-> "vault"]
       ELSE IF oracle = <<>>
       THEN [vendor |-> "oracle not known", underlying |-> <<>>,
             vendorType |-> "error"]
       ELSE IF oracle[1].fullAddress = ZeroAddress
       THEN [vendor |-> "no oracle (escrow)", underlying |-> <<>>,
             vendorType |-> "no oracle (escrow)"]
       ELSE IF oracle[1].fullAddress = Undefined
       THEN [vendor |-> "no oracle address stored", underlying |-> <<>>,
             vendorType |-> "error"]
       ELSE LET vendor == NormalizeVendorName(oracle[1].providerInfo)
                crossOracle ==
                    Find(SelectSeq(data.crossAnalysis,
                         LAMBDA c : /\ c.crossAddress # Undefined
                                    /\ AddressToLowerCase(c.crossAddress)
                                          = AddressToLowerCase(adapterAddress)))
            IN IF vendor = "Cross" /\ crossOracle # <<>> /\ ~crossOracle[1].error
               THEN [vendor |-> "Cross",
                     underlying |->
                         <<NormalizeVendorName(crossOracle[1].baseCrossName),
                           NormalizeVendorName(crossOracle[1].crossQuoteName)>>,
                     vendorType |-> "external"]
               ELSE [vendor |-> vendor, underlying |-> <<>>,
                     vendorType |-> "external"]

----------------------------------------------------------------------------
(* The modelled chain and the static inputs of a run                       *)

\* the values provider.getBlockNumber() returns over time (the README's
\* timeline: 1000, 1100, 51000, and one block past the recheck boundary)
HeadValues == {1000, 1100, 51000, 51001}

\* ContractDeployed(router, deployer, timestamp) events of the router factory
RouterFactoryLog ==
    <<[blockNumber |-> 900, router |-> "0xR1"],
      [blockNumber |-> 1050, router |-> "0xR2"]>>

\* ProxyCreated(proxy, ...) events of the vault factory
VaultFactoryLog ==
    <<[blockNumber |-> 920, proxy |-> "0xV1"],
      [blockNumber |-> 1070, proxy |-> "0xV2"]>>

\* ConfigSet(asset0, asset1, oracle) events of each router
ConfigSetLog(router) ==
    IF router = "0xR1"
    THEN <<[blockNumber |-> 950, asset0 |-> "0xA", asset1 |-> "0xUSD",
            oracle |-> "0xO1"],
           [blockNumber |-> 30000, asset0 |-> "0xA", asset1 |-> "0xUSD",
            oracle |-> "0xO2"],
           [blockNumber |-> 40000, asset0 |-> "0xB", asset1 |-> "0xUSD",
            oracle |-> "0xO3"]>>
    ELSE IF router = "0xR2"
    THEN <<[blockNumber |-> 1060, asset0 |-> "0xB", asset1 |-> "0xUSD",
            oracle |-> "0xO1"]>>
    ELSE <<>>

\* what vault.oracle() and vault.asset() return
VaultOracle == "0xV1" :> "0xR1" @@ "0xV2" :> "0xR2"

VaultAsset == "0xV1" :> "0xA" @@ "0xV2" :> "0xB"

\* euler-oracles.json and cross-oracle-analysis.json
EulerOracles ==
    <<[fullAddress |-> "0xo1",
       providerInfo |-> <<"C", "h", "a", "i", "n", "l", "i", "n", "k">>],
      [fullAddress |-> "0xO2",
       providerInfo |-> <<"C", "r", "o", "s", "s">>]>>

CrossAnalysis ==
    <<[crossAddress |-> "0xo2",
       baseCrossName |-> <<"P", "y", "t", "h">>,
       crossQuoteName |-> <<"R", "e", "d", "S", "t", "o", "n", "e">>,
       error |-> FALSE]>>

\* the block both factories were deployed at, when .env names it
FactoryStartBlock == 800

\* process.env.*_START_BLOCK ? parseInt(...) : null, null being NoBlock
StartBlockSettings == {NoBlock, FactoryStartBlock}

\* RECHECK_INTERVAL_BLOCKS, at its default
RECHECK_INTERVAL_BLOCKS == 50000

----------------------------------------------------------------------------
(* lib/progress.ts                                                         *)

EmptyMap == [k \in {} |-> k]

Put(map, key, value) ==
    [k \in DOMAIN map \cup {key} |-> IF k = key THEN value ELSE map[k]]

Range(seq) == {seq[k] : k \in 1..Len(seq)}

\* the fresh progress object; an absent lastRouterFactoryBlock or
\* lastVaultFactoryBlock is NoBlock; vaultKeys is Object.keys(vaults), the
\* insertion order that Object.entries(progress.vaults) iterates in
FreshProgress ==
    [routers |-> EmptyMap, vaults |-> EmptyMap, vaultKeys |-> <<>>,
     processedRouters |-> EmptyMap, processedVaults |-> EmptyMap,
     lastRouterFactoryBlock |-> NoBlock, lastVaultFactoryBlock |-> NoBlock]

\* the progress file: whether it exists, whether its text is JSON, and the
\* progress object whose text was written to it
NoFile == [exists |-> FALSE, parses |-> FALSE, data |-> FreshProgress]

\* a load that takes whatever text the file holds for the progress object
LoadProgress_Unchecked(file) == file.data

\* existsSync, readFile and JSON.parse inside try; the fresh object otherwise
LoadProgress(file) ==
    IF file.exists /\ file.parses THEN file.data ELSE FreshProgress

\* fs.writeFile(PROGRESS_FILE, JSON.stringify(progress, replacer, 2))
SaveProgress(p) == [exists |-> TRUE, parses |-> TRUE, data |-> p]

\* fs.writeFile opens the file with flag 'w', which truncates it, and then
\* writes the text; a process that dies in between leaves a proper prefix
\* of the text of p, which is not JSON
TornFile(p) == [exists |-> TRUE, parses |-> FALSE, data |-> p]

\* JavaScript truthiness of an optional block number
Truthy(block) == block # NoBlock /\ block # 0

----------------------------------------------------------------------------
(* lib/utils.ts requireStartBlock and the factory steps' range resolution  *)

\* process.exit(1) when the setting is missing
RequireStartBlockExits(blockVar) == ~Truthy(blockVar)

\* arr[index]?.deploymentBlock ?? fallback, for a JavaScript array index
DeploymentBlockAt(arr, index, fallback) ==
    IF 0 <= index /\ index < Len(arr) THEN arr[index + 1].deploymentBlock
    ELSE fallback

\* a resolver whose alternativeStart reads the last cached deployment,
\* deployments[deployments.length - 1], and so resumes at its block
EvaluateRouterFactoryQuery_FromLastDeployment(p, deployments, startBlock) ==
    IF Truthy(p.lastRouterFactoryBlock)
    THEN LET fromBlock == p.lastRouterFactoryBlock + 1
             alternativeStart ==
                 DeploymentBlockAt(deployments, Len(deployments) - 1, fromBlock)
         IN [fromBlock |-> IF alternativeStart > fromBlock THEN fromBlock
                           ELSE alternativeStart,
             shouldQueryFactory |-> TRUE, exits |-> FALSE]
    ELSE IF Len(deployments) > 0
    THEN [fromBlock |-> DeploymentBlockAt(deployments, -1, 0),
          shouldQueryFactory |-> FALSE, exits |-> FALSE]
    ELSE [fromBlock |-> startBlock, shouldQueryFactory |-> TRUE,
          exits |-> RequireStartBlockExits(startBlock)]

EvaluateRouterFactoryQuery(p, deployments, startBlock) ==
    IF Truthy(p.lastRouterFactoryBlock)
    THEN LET fromBlock == p.lastRouterFactoryBlock + 1
             alternativeStart == DeploymentBlockAt(deployments, -1, fromBlock)
         IN [fromBlock |-> IF alternativeStart > fromBlock THEN fromBlock
                           ELSE alternativeStart,
             shouldQueryFactory |-> TRUE, exits |-> FALSE]
    ELSE IF Len(deployments) > 0
    THEN [fromBlock |-> DeploymentBlockAt(deployments, -1, 0),
          shouldQueryFactory |-> FALSE, exits |-> FALSE]
    ELSE [fromBlock |-> startBlock, shouldQueryFactory |-> TRUE,
          exits |-> RequireStartBlockExits(startBlock)]

\* a resolver that resumes at the checkpoint block itself
EvaluateVaultFactoryQuery_AtCheckpoint(p, deployments, startBlock, current) ==
    IF Truthy(p.lastVaultFactoryBlock)
    THEN [fromBlock |-> p.lastVaultFactoryBlock,
          shouldQueryFactory |-> TRUE, exits |-> FALSE]
    ELSE IF Len(deployments) > 0
    THEN [fromBlock |-> Max(current - 10000, 0),
          shouldQueryFactory |-> TRUE, exits |-> FALSE]
    ELSE [fromBlock |-> startBlock, shouldQueryFactory |-> TRUE,
          exits |-> RequireStartBlockExits(startBlock)]

EvaluateVaultFactoryQuery(p, deployments, startBlock, current) ==
    IF Truthy(p.lastVaultFactoryBlock)
    THEN [fromBlock |-> p.lastVaultFactoryBlock + 1,
          shouldQueryFactory |-> TRUE, exits |-> FALSE]
    ELSE IF Len(deployments) > 0
    THEN [fromBlock |-> Max(current - 10000, 0),
          shouldQueryFactory |-> TRUE, exits |-> FALSE]
    ELSE [fromBlock |-> startBlock, shouldQueryFactory |-> TRUE,
          exits |-> RequireStartBlockExits(startBlock)]

\* the deployments of the events fetched from a factory
RouterDeploymentsOf(events) ==
    [k \in 1..Len(events) |->
        [address |-> events[k].router, deploymentBlock |-> events[k].blockNumber]]

VaultDeploymentsOf(events) ==
    [k \in 1..Len(events) |->
        [address |-> events[k].proxy, deploymentBlock |-> events[k].blockNumber]]

\* a step that writes the fetched deployments in place of the cache
MergeDeployments_Replace(all, newDeployments) == newDeployments

\* existingAddresses is computed once, before the loop over newDeployments
MergeDeployments(all, newDeployments) ==
    LET existingAddresses ==
            {AddressToLowerCase(all[k].address) : k \in 1..Len(all)}
    IN all \o SelectSeq(newDeployments,
                 LAMBDA d : AddressToLowerCase(d.address) \notin existingAddresses)

----------------------------------------------------------------------------
(* index.ts main() and steps/1-fetch-routers.ts                            *)

NoPlan == [fromBlock |-> NoBlock, shouldQueryFactory |-> FALSE]

NoEntity == [address |-> Undefined]

InitPipelineVars ==
    /\ head = 1000
    /\ progressFile = NoFile
    /\ routerDeploymentsFile = <<>>
    /\ vaultDeploymentsFile = <<>>
    /\ pc = "idle"
    /\ oracleData = [eulerOracles |-> EulerOracles, crossAnalysis |-> CrossAnalysis,
                     vaultDeployments |-> <<>>]
    /\ progress = FreshProgress
    /\ currentBlock = NoBlock
    /\ plan = NoPlan
    /\ allDeployments = <<>>
    /\ idx = 1
    /\ entity = NoEntity
    /\ network = {}
    /\ inFlight = {}
    /\ lastRun = [completed |-> FALSE, errors |-> {}, data |-> FreshProgress]
    /\ exitCode = "none"
    /\ errorLog = {}
    /\ faults = 0
    /\ gaps = {}

\* main(): loadOracleData(), loadProgress()
StartRun ==
    /\ pc = "idle"
    /\ oracleData' = [eulerOracles |-> EulerOracles, crossAnalysis |-> CrossAnalysis,
                      vaultDeployments |-> vaultDeploymentsFile]
    /\ progress' = LoadProgress(progressFile)
    /\ network' = {}
    /\ errorLog' = {}
    /\ exitCode' = "running"
    /\ pc' = "r_head"
    /\ inFlight' = {}
    /\ UNCHANGED <<head, diskvars, env, currentBlock, plan, allDeployments,
                   idx, entity, faults, bvars, gaps,
                   lastRun, mvars, fvars>>

\* a provider whose head may lie behind the head an earlier call saw
RouterHead_Lagging ==
    /\ pc = "r_head"
    /\ \E h \in HeadValues : head' = h /\ currentBlock' = h
    /\ network' = network \cup {[op |-> "getBlockNumber"]}
    /\ inFlight' = {[op |-> "getBlockNumber"]}
    /\ pc' = "r_eval"
    /\ UNCHANGED <<diskvars, env, oracleData, progress, plan, allDeployments,
                   idx, entity, exitCode, errorLog, faults, bvars, gaps,
                   lastRun, mvars, fvars>>

\* fetchRouters: const currentBlock = await provider.getBlockNumber()
RouterHead ==
    /\ pc = "r_head"
    /\ \E h \in HeadValues : h >= head /\ head' = h /\ currentBlock' = h
    /\ network' = network \cup {[op |-> "getBlockNumber"]}
    /\ inFlight' = {[op |-> "getBlockNumber"]}
    /\ pc' = "r_eval"
    /\ UNCHANGED <<diskvars, env, oracleData, progress, plan, allDeployments,
                   idx, entity, exitCode, errorLog, faults, bvars, gaps,
                   lastRun, mvars, fvars>>

\* fetchRouters: evaluateRouterFactoryQuery(progress) returns
RouterEvaluate ==
    /\ pc = "r_eval"
    /\ LET r == EvaluateRouterFactoryQuery(progress, routerDeploymentsFile,
                                           env.routerStart)
       IN /\ ~r.exits
          /\ plan' = [fromBlock |-> r.fromBlock,
                      shouldQueryFactory |-> r.shouldQueryFactory]
    /\ pc' = "r_factory"
    /\ inFlight' = {}
    /\ UNCHANGED <<head, diskvars, env, oracleData, progress, currentBlock,
                   allDeployments, idx, entity, network, exitCode, errorLog,
                   faults, bvars, gaps,
                   lastRun, mvars, fvars>>

\* the process ends: its memory is gone, its exit code and output remain
Exit(code) ==
    /\ pc' = "idle"
    /\ exitCode' = code
    /\ progress' = FreshProgress
    /\ currentBlock' = NoBlock
    /\ plan' = NoPlan
    /\ allDeployments' = <<>>
    /\ idx' = 1
    /\ entity' = NoEntity
    /\ inFlight' = {}
    /\ lastRun' = [completed |-> code = "ok",
                   errors |-> IF code = "ok" THEN errorLog ELSE {},
                   data |-> IF code = "ok" THEN progressFile.data
                            ELSE FreshProgress]
    /\ UNCHANGED <<env, oracleData, network, errorLog>>

\* fetchRouters: requireStartBlock ends the process with process.exit(1)
RouterConfigError ==
    /\ pc = "r_eval"
    /\ EvaluateRouterFactoryQuery(progress, routerDeploymentsFile,
                                  env.routerStart).exits
    /\ Exit("config")
    /\ UNCHANGED <<head, diskvars, faults, bvars, gaps, mvars, fvars>>

\* the ranges a call for that contract dropped
GapsOf(contract, fromBlock, toBlock, bad) ==
    {[contract |-> contract, fromBlock |-> r[1], toBlock |-> r[2]] :
        r \in DroppedRanges(fromBlock, toBlock, DEFAULT_BATCH_SIZE, bad)}

QueryOp(contract, fromBlock, toBlock) ==
    IF fromBlock <= toBlock
    THEN {[op |-> "queryFilter", contract |-> contract,
           fromBlock |-> fromBlock, toBlock |-> toBlock]}
    ELSE {}

\* fetchRouters 1b: loadRouterDeployments, queryRouterFactory, the merge into
\* the cache and saveRouterDeployments
RouterFactory ==
    /\ pc = "r_factory"
    /\ IF plan.shouldQueryFactory
       THEN \E bad \in FailurePatterns(RouterFactoryLog, plan.fromBlock, currentBlock) :
               LET newDeployments ==
                       RouterDeploymentsOf(
                           QueryEventsInBatches(RouterFactoryLog, plan.fromBlock,
                               currentBlock, DEFAULT_BATCH_SIZE, bad))
                   all == MergeDeployments(routerDeploymentsFile, newDeployments)
               IN /\ allDeployments' = all
                  /\ routerDeploymentsFile' =
                        IF Len(newDeployments) > 0 THEN all
                        ELSE routerDeploymentsFile
                  /\ network' = network \cup
                        QueryOp("routerFactory", plan.fromBlock, currentBlock)
                  /\ inFlight' =
                        QueryOp("routerFactory", plan.fromBlock, currentBlock)
                  /\ gaps' = gaps \cup
                        GapsOf("routerFactory", plan.fromBlock, currentBlock, bad)
       ELSE /\ allDeployments' = routerDeploymentsFile
            /\ inFlight' = {}
            /\ UNCHANGED <<routerDeploymentsFile, network, gaps>>
    /\ idx' = 1
    /\ pc' = "r_loop"
    /\ UNCHANGED <<head, progressFile, vaultDeploymentsFile, env, oracleData,
                   progress, currentBlock, plan, entity, exitCode, errorLog,
                   faults, bvars,
                   lastRun, mvars, fvars>>

\* the interval test with the boundary on the side of the skip
RouterIsFresh_Inclusive(p, address, current) ==
    /\ address \in DOMAIN p.processedRouters
    /\ current - p.processedRouters[address] <= RECHECK_INTERVAL_BLOCKS

\* the recheck-interval test of processRouterDeployments
RouterIsFresh(p, address, current) ==
    /\ address \in DOMAIN p.processedRouters
    /\ current - p.processedRouters[address] < RECHECK_INTERVAL_BLOCKS

\* processRouterDeployments: `continue` for a router checked recently
RouterSkip ==
    /\ pc = "r_loop"
    /\ idx <= Len(allDeployments)
    /\ RouterIsFresh(progress, allDeployments[idx].address, currentBlock)
    /\ idx' = idx + 1
    /\ inFlight' = {}
    /\ UNCHANGED <<head, diskvars, pc, env, oracleData, progress, currentBlock,
                   plan, allDeployments, entity, network, exitCode, errorLog,
                   faults, bvars, gaps,
                   lastRun, mvars, fvars>>

\* a recheck that starts at lastProcessedBlock itself
RouterQuery_FromLastProcessed ==
    /\ pc = "r_loop"
    /\ idx <= Len(allDeployments)
    /\ ~RouterIsFresh(progress, allDeployments[idx].address, currentBlock)
    /\ LET d == allDeployments[idx]
           isRecheck == d.address \in DOMAIN progress.processedRouters
           queryFromBlock == IF isRecheck
                             THEN progress.processedRouters[d.address]
                             ELSE d.deploymentBlock
       IN /\ \E bad \in FailurePatterns(ConfigSetLog(d.address), queryFromBlock,
                                        currentBlock) :
                /\ entity' = [address |-> d.address,
                              deploymentBlock |-> d.deploymentBlock,
                              queryFromBlock |-> queryFromBlock,
                              isRecheck |-> isRecheck,
                              configEvents |->
                                  QueryEventsInBatches(ConfigSetLog(d.address),
                                      queryFromBlock, currentBlock,
                                      DEFAULT_BATCH_SIZE, bad)]
                /\ gaps' = gaps \cup
                      GapsOf(d.address, queryFromBlock, currentBlock, bad)
          /\ network' = network \cup QueryOp(d.address, queryFromBlock, currentBlock)
          /\ inFlight' = QueryOp(d.address, queryFromBlock, currentBlock)
    /\ pc' = "r_commit"
    /\ UNCHANGED <<head, diskvars, env, oracleData, progress, currentBlock, plan,
                   allDeployments, idx, exitCode, errorLog, faults, bvars,
                   lastRun, mvars, fvars>>

\* processRouterDeployments: queryFromBlock, isRecheck and the ConfigSet query
RouterQuery ==
    /\ pc = "r_loop"
    /\ idx <= Len(allDeployments)
    /\ ~RouterIsFresh(progress, allDeployments[idx].address, currentBlock)
    /\ LET d == allDeployments[idx]
           isRecheck == d.address \in DOMAIN progress.processedRouters
           queryFromBlock == IF isRecheck
                             THEN progress.processedRouters[d.address] + 1
                             ELSE d.deploymentBlock
       IN /\ \E bad \in FailurePatterns(ConfigSetLog(d.address), queryFromBlock,
                                        currentBlock) :
                /\ entity' = [address |-> d.address,
                              deploymentBlock |-> d.deploymentBlock,
                              queryFromBlock |-> queryFromBlock,
                              isRecheck |-> isRecheck,
                              configEvents |->
                                  QueryEventsInBatches(ConfigSetLog(d.address),
                                      queryFromBlock, currentBlock,
                                      DEFAULT_BATCH_SIZE, bad)]
                /\ gaps' = gaps \cup
                      GapsOf(d.address, queryFromBlock, currentBlock, bad)
          /\ network' = network \cup QueryOp(d.address, queryFromBlock, currentBlock)
          /\ inFlight' = QueryOp(d.address, queryFromBlock, currentBlock)
    /\ pc' = "r_commit"
    /\ UNCHANGED <<head, diskvars, env, oracleData, progress, currentBlock, plan,
                   allDeployments, idx, exitCode, errorLog, faults, bvars,
                   lastRun, mvars, fvars>>

SetAdd(seq, x) == IF x \in Range(seq) THEN seq ELSE Append(seq, x)

\* if (!assetPairs[key]) assetPairs[key] = []; assetPairs[key].push(oracle)
\* assetPairs lists its keys in insertion order
PushPair(assetPairs, key, oracle) ==
    IF \E k \in 1..Len(assetPairs) : assetPairs[k].key = key
    THEN [k \in 1..Len(assetPairs) |->
            IF assetPairs[k].key = key
            THEN [assetPairs[k] EXCEPT !.adapters = Append(@, oracle)]
            ELSE assetPairs[k]]
    ELSE Append(assetPairs, [key |-> key, adapters |-> <<oracle>>])

\* configEvents.forEach(...) on the local adapters set and assetPairs object
RECURSIVE ApplyConfigEvents(_, _)
ApplyConfigEvents(events, acc) ==
    IF events = <<>> THEN acc
    ELSE LET e == events[1]
         IN ApplyConfigEvents(Tail(events),
                [adapters |-> SetAdd(acc.adapters, e.oracle),
                 assetPairs |-> PushPair(acc.assetPairs,
                                         <<e.asset0, e.asset1>>, e.oracle)])

RECURSIVE SetOfArray(_)
SetOfArray(arr) ==
    IF arr = <<>> THEN <<>>
    ELSE SetAdd(SetOfArray(SubSeq(arr, 1, Len(arr) - 1)), arr[Len(arr)])

\* the locals adapters and assetPairs before the forEach
RouterLocals(p, e) ==
    IF e.isRecheck /\ e.address \in DOMAIN p.routers
    THEN [adapters |-> SetOfArray(p.routers[e.address].adapters),
          assetPairs |-> p.routers[e.address].assetPairs]
    ELSE [adapters |-> <<>>, assetPairs |-> <<>>]

\* a merge that rebuilds the record from the newly fetched events alone
MergeRouter_Overwrite(p, e, current, data) ==
    LET merged == ApplyConfigEvents(e.configEvents,
                                    [adapters |-> <<>>, assetPairs |-> <<>>])
    IN [p EXCEPT
          !.routers = Put(@, e.address,
              [deploymentBlock |-> e.deploymentBlock,
               adapters |-> merged.adapters,
               assetPairs |-> merged.assetPairs,
               vendorInfo |-> [a \in Range(merged.adapters) |->
                                  GetVendorForOracle(a, data)],
               configEventsCount |-> Len(e.configEvents),
               vaultEventsCount |-> 0]),
          !.processedRouters = Put(@, e.address, current)]

\* processRouterDeployments: from `let existingRouterInfo` to
\* `progress.processedRouters[routerAddress] = currentBlock`
MergeRouter(p, e, current, data) ==
    LET useExisting == e.isRecheck /\ e.address \in DOMAIN p.routers
        merged == ApplyConfigEvents(e.configEvents, RouterLocals(p, e))
        totalConfigEvents ==
            IF useExisting
            THEN p.routers[e.address].configEventsCount + Len(e.configEvents)
            ELSE Len(e.configEvents)
    IN [p EXCEPT
          !.routers = Put(@, e.address,
              [deploymentBlock |-> e.deploymentBlock,
               adapters |-> merged.adapters,
               assetPairs |-> merged.assetPairs,
               vendorInfo |-> [a \in Range(merged.adapters) |->
                                  GetVendorForOracle(a, data)],
               configEventsCount |-> totalConfigEvents,
               vaultEventsCount |-> 0]),
          !.processedRouters = Put(@, e.address, current)]

\* `{ ...existingRouterInfo.assetPairs }` copies the object, not its arrays:
\* the pushes of the forEach reach the arrays of the existing record. When
\* the callback throws at event k, events 1..k-1 have been pushed.
RouterAfterThrow(p, e, k) ==
    IF e.isRecheck /\ e.address \in DOMAIN p.routers
    THEN LET old == p.routers[e.address]
             partial == ApplyConfigEvents(SubSeq(e.configEvents, 1, k - 1),
                                          RouterLocals(p, e))
         IN [p EXCEPT !.routers[e.address].assetPairs =
                [j \in 1..Len(old.assetPairs) |-> partial.assetPairs[j]]]
    ELSE p

\* processRouterDeployments: the record and the checkpoint are written and
\* saveProgress succeeds
RouterCommit ==
    /\ pc = "r_commit"
    /\ progress' = MergeRouter(progress, entity, currentBlock, oracleData)
    /\ progressFile' = SaveProgress(progress')
    /\ idx' = idx + 1
    /\ entity' = NoEntity
    /\ pc' = "r_loop"
    /\ inFlight' = {}
    /\ UNCHANGED <<head, routerDeploymentsFile, vaultDeploymentsFile, env,
                   oracleData, currentBlock, plan, allDeployments, network,
                   exitCode, errorLog, faults, bvars, gaps,
                   lastRun, mvars, fvars>>

\* processRouterDeployments: saveProgress throws inside the try block; the
\* catch block logs and the loop goes on
RouterCommitSaveFails ==
    /\ pc = "r_commit"
    /\ faults < MaxFaults
    /\ faults' = faults + 1
    /\ progress' = MergeRouter(progress, entity, currentBlock, oracleData)
    /\ errorLog' = errorLog \cup {[entity |-> entity.address, error |-> "save"]}
    /\ idx' = idx + 1
    /\ entity' = NoEntity
    /\ pc' = "r_loop"
    /\ inFlight' = {}
    /\ UNCHANGED <<head, diskvars, env, oracleData, currentBlock, plan,
                   allDeployments, network, exitCode, bvars, gaps,
                   lastRun, mvars, fvars>>

\* processRouterDeployments: reading the arguments of event k throws inside
\* the forEach (a decode error); the catch block logs and the loop goes on
RouterDecodeThrows ==
    /\ pc = "r_commit"
    /\ faults < MaxFaults
    /\ faults' = faults + 1
    /\ \E k \in 1..Len(entity.configEvents) :
          progress' = RouterAfterThrow(progress, entity, k)
    /\ errorLog' = errorLog \cup {[entity |-> entity.address, error |-> "decode"]}
    /\ idx' = idx + 1
    /\ entity' = NoEntity
    /\ pc' = "r_loop"
    /\ inFlight' = {}
    /\ UNCHANGED <<head, diskvars, env, oracleData, currentBlock, plan,
                   allDeployments, network, exitCode, bvars, gaps,
                   lastRun, mvars, fvars>>

\* processRouterDeployments: progress.lastRouterFactoryBlock = currentBlock;
\* await saveProgress(progress); then fetchVaults starts
RouterFinish ==
    /\ pc = "r_loop"
    /\ idx > Len(allDeployments)
    /\ progress' = [progress EXCEPT !.lastRouterFactoryBlock = currentBlock]
    /\ progressFile' = SaveProgress(progress')
    /\ pc' = "v_head"
    /\ inFlight' = {}
    /\ UNCHANGED <<head, routerDeploymentsFile, vaultDeploymentsFile, env,
                   oracleData, currentBlock, plan, allDeployments, idx, entity,
                   network, exitCode, errorLog, faults, bvars, gaps,
                   lastRun, mvars, fvars>>

\* the final saveProgress of the router step throws: main().catch, exit(1)
RouterFinishSaveFails ==
    /\ pc = "r_loop"
    /\ idx > Len(allDeployments)
    /\ faults < MaxFaults
    /\ faults' = faults + 1
    /\ Exit("fatal")
    /\ UNCHANGED <<head, diskvars, bvars, gaps, mvars, fvars>>

----------------------------------------------------------------------------
(* steps/2-fetch-vaults.ts                                                 *)

\* fetchVaults: const currentBlock = await provider.getBlockNumber()
VaultHead ==
    /\ pc = "v_head"
    /\ \E h \in HeadValues : h >= head /\ head' = h /\ currentBlock' = h
    /\ network' = network \cup {[op |-> "getBlockNumber"]}
    /\ inFlight' = {[op |-> "getBlockNumber"]}
    /\ pc' = "v_eval"
    /\ UNCHANGED <<diskvars, env, oracleData, progress, plan, allDeployments,
                   idx, entity, exitCode, errorLog, faults, bvars, gaps,
                   lastRun, mvars, fvars>>

\* fetchVaults: evaluateVaultFactoryQuery(progress, currentBlock) returns
VaultEvaluate ==
    /\ pc = "v_eval"
    /\ LET r == EvaluateVaultFactoryQuery(progress, vaultDeploymentsFile,
                                          env.vaultStart, currentBlock)
       IN /\ ~r.exits
          /\ plan' = [fromBlock |-> r.fromBlock,
                      shouldQueryFactory |-> r.shouldQueryFactory]
    /\ pc' = "v_factory"
    /\ inFlight' = {}
    /\ UNCHANGED <<head, diskvars, env, oracleData, progress, currentBlock,
                   allDeployments, idx, entity, network, exitCode, errorLog,
                   faults, bvars, gaps,
                   lastRun, mvars, fvars>>

\* fetchVaults: requireStartBlock ends the process with process.exit(1)
VaultConfigError ==
    /\ pc = "v_eval"
    /\ EvaluateVaultFactoryQuery(progress, vaultDeploymentsFile, env.vaultStart,
                                 currentBlock).exits
    /\ Exit("config")
    /\ UNCHANGED <<head, diskvars, faults, bvars, gaps, mvars, fvars>>

\* fetchVaults 2b: loadVaultDeployments, queryVaultFactory, the merge into the
\* cache and saveVaultDeployments
VaultFactory ==
    /\ pc = "v_factory"
    /\ IF plan.shouldQueryFactory
       THEN \E bad \in FailurePatterns(VaultFactoryLog, plan.fromBlock, currentBlock) :
               LET newDeployments ==
                       VaultDeploymentsOf(
                           QueryEventsInBatches(VaultFactoryLog, plan.fromBlock,
                               currentBlock, DEFAULT_BATCH_SIZE, bad))
                   all == MergeDeployments(vaultDeploymentsFile, newDeployments)
               IN /\ allDeployments' = all
                  /\ vaultDeploymentsFile' =
                        IF Len(newDeployments) > 0 THEN all
                        ELSE vaultDeploymentsFile
                  /\ network' = network \cup
                        QueryOp("vaultFactory", plan.fromBlock, currentBlock)
                  /\ inFlight' =
                        QueryOp("vaultFactory", plan.fromBlock, currentBlock)
                  /\ gaps' = gaps \cup
                        GapsOf("vaultFactory", plan.fromBlock, currentBlock, bad)
       ELSE /\ allDeployments' = vaultDeploymentsFile
            /\ inFlight' = {}
            /\ UNCHANGED <<vaultDeploymentsFile, network, gaps>>
    /\ idx' = 1
    /\ pc' = "v_loop"
    /\ UNCHANGED <<head, progressFile, routerDeploymentsFile, env, oracleData,
                   progress, currentBlock, plan, entity, exitCode, errorLog,
                   faults, bvars,
                   lastRun, mvars, fvars>>

\* processVaultDeployments: shouldRequeryRpc
ShouldRequeryRpc(p, address, current) ==
    IF address \in DOMAIN p.processedVaults
    THEN ~(current - p.processedVaults[address] < RECHECK_INTERVAL_BLOCKS)
    ELSE TRUE

\* !shouldRequeryRpc && existingVaultInfo?.oracle && existingVaultInfo?.asset
UsesCachedVault(p, address, current) ==
    /\ ~ShouldRequeryRpc(p, address, current)
    /\ address \in DOMAIN p.vaults

\* processVaultDeployments: oracle and asset are taken from the cached record
VaultUseCached ==
    /\ pc = "v_loop"
    /\ idx <= Len(allDeployments)
    /\ UsesCachedVault(progress, allDeployments[idx].address, currentBlock)
    /\ LET d == allDeployments[idx]
       IN entity' = [address |-> d.address,
                     deploymentBlock |-> d.deploymentBlock,
                     routerAddress |-> progress.vaults[d.address].oracle,
                     assetAddress |-> progress.vaults[d.address].asset,
                     shouldRequeryRpc |-> FALSE]
    /\ pc' = "v_commit"
    /\ inFlight' = {}
    /\ UNCHANGED <<head, diskvars, env, oracleData, progress, currentBlock, plan,
                   allDeployments, idx, network, exitCode, errorLog, faults, bvars, gaps,
                   lastRun, mvars, fvars>>

VaultCalls(address) ==
    {[op |-> "call", contract |-> address, method |-> "oracle"],
     [op |-> "call", contract |-> address, method |-> "asset"]}

\* processVaultDeployments: Promise.all([vault.oracle(), vault.asset()])
VaultCall ==
    /\ pc = "v_loop"
    /\ idx <= Len(allDeployments)
    /\ ~UsesCachedVault(progress, allDeployments[idx].address, currentBlock)
    /\ LET d == allDeployments[idx]
       IN /\ entity' = [address |-> d.address,
                        deploymentBlock |-> d.deploymentBlock,
                        routerAddress |-> VaultOracle[d.address],
                        assetAddress |-> VaultAsset[d.address],
                        shouldRequeryRpc |->
                            ShouldRequeryRpc(progress, d.address, currentBlock)]
          /\ network' = network \cup VaultCalls(d.address)
          /\ inFlight' = VaultCalls(d.address)
    /\ pc' = "v_commit"
    /\ UNCHANGED <<head, diskvars, env, oracleData, progress, currentBlock, plan,
                   allDeployments, idx, exitCode, errorLog, faults, bvars, gaps,
                   lastRun, mvars, fvars>>

\* processVaultDeployments: a contract call rejects; the catch block logs and
\* the loop goes on
VaultCallThrows ==
    /\ pc = "v_loop"
    /\ idx <= Len(allDeployments)
    /\ ~UsesCachedVault(progress, allDeployments[idx].address, currentBlock)
    /\ faults < MaxFaults
    /\ faults' = faults + 1
    /\ network' = network \cup VaultCalls(allDeployments[idx].address)
    /\ inFlight' = VaultCalls(allDeployments[idx].address)
    /\ errorLog' = errorLog \cup
          {[entity |-> allDeployments[idx].address, error |-> "call"]}
    /\ idx' = idx + 1
    /\ UNCHANGED <<head, diskvars, pc, env, oracleData, progress, currentBlock,
                   plan, allDeployments, entity, exitCode, bvars, gaps,
                   lastRun, mvars, fvars>>

\* the adapters of the asset pairs that name the asset, in iteration order
RECURSIVE MatchingAdapters(_, _)
MatchingAdapters(assetPairs, assetAddress) ==
    IF assetPairs = <<>> THEN <<>>
    ELSE LET pair == assetPairs[1]
             assetLower == AddressToLowerCase(assetAddress)
             matches == \/ AddressToLowerCase(pair.key[1]) = assetLower
                        \/ AddressToLowerCase(pair.key[2]) = assetLower
         IN (IF matches THEN pair.adapters ELSE <<>>)
               \o MatchingAdapters(Tail(assetPairs), assetAddress)

RECURSIVE AddAll(_, _)
AddAll(seq, items) ==
    IF items = <<>> THEN seq
    ELSE AddAll(SetAdd(seq, items[1]), Tail(items))

\* vendorSet after the adapters have been visited
RECURSIVE VendorSetOf(_, _, _)
VendorSetOf(adapters, vendorInfo, vendorSet) ==
    IF adapters = <<>> THEN vendorSet
    ELSE LET a == adapters[1]
             next ==
                 IF a \notin DOMAIN vendorInfo THEN vendorSet
                 ELSE IF /\ vendorInfo[a].vendor = "Cross"
                         /\ Len(vendorInfo[a].underlying) > 0
                      THEN AddAll(vendorSet, vendorInfo[a].underlying)
                      ELSE SetAdd(vendorSet, vendorInfo[a].vendor)
         IN VendorSetOf(Tail(adapters), vendorInfo, next)

\* processVaultDeployments: vendors and vendorType of a vault
VaultVendors(p, routerAddress, assetAddress, data) ==
    IF routerAddress \in DOMAIN p.routers
    THEN LET routerInfo == p.routers[routerAddress]
             vendors == VendorSetOf(
                            MatchingAdapters(routerInfo.assetPairs, assetAddress),
                            routerInfo.vendorInfo, <<>>)
         IN [vendors |-> vendors,
             vendorType |-> IF Len(vendors) = 1 THEN vendors[1] ELSE "Multiple"]
    ELSE LET info == GetVendorForOracle(routerAddress, data)
         IN IF info.vendor = "Cross" /\ Len(info.underlying) > 0
            THEN [vendors |-> info.underlying, vendorType |-> "Cross"]
            ELSE [vendors |-> <<info.vendor>>, vendorType |-> info.vendor]

\* progress.vaults[address] = value, keeping the key order of the object
PutVault(p, address, value) ==
    [p EXCEPT !.vaults = Put(@, address, value),
              !.vaultKeys = SetAdd(@, address)]

\* processVaultDeployments: `progress.vaults[vaultAddress] = {...}` and
\* `progress.processedVaults[vaultAddress] = currentBlock`
MergeVault(p, e, current, data) ==
    LET v == VaultVendors(p, e.routerAddress, e.assetAddress, data)
    IN [PutVault(p, e.address,
            [oracle |-> e.routerAddress, asset |-> e.assetAddress,
             vendors |-> v.vendors, vendorType |-> v.vendorType,
             deploymentBlock |-> e.deploymentBlock])
          EXCEPT !.processedVaults = Put(@, e.address, current)]

\* processVaultDeployments: the record and the checkpoint are written and
\* saveProgress succeeds
VaultCommit ==
    /\ pc = "v_commit"
    /\ progress' = MergeVault(progress, entity, currentBlock, oracleData)
    /\ progressFile' = SaveProgress(progress')
    /\ idx' = idx + 1
    /\ entity' = NoEntity
    /\ pc' = "v_loop"
    /\ inFlight' = {}
    /\ UNCHANGED <<head, routerDeploymentsFile, vaultDeploymentsFile, env,
                   oracleData, currentBlock, plan, allDeployments, network,
                   exitCode, errorLog, faults, bvars, gaps,
                   lastRun, mvars, fvars>>

\* processVaultDeployments: saveProgress throws inside the try block
VaultCommitSaveFails ==
    /\ pc = "v_commit"
    /\ faults < MaxFaults
    /\ faults' = faults + 1
    /\ progress' = MergeVault(progress, entity, currentBlock, oracleData)
    /\ errorLog' = errorLog \cup {[entity |-> entity.address, error |-> "save"]}
    /\ idx' = idx + 1
    /\ entity' = NoEntity
    /\ pc' = "v_loop"
    /\ inFlight' = {}
    /\ UNCHANGED <<head, diskvars, env, oracleData, currentBlock, plan,
                   allDeployments, network, exitCode, bvars, gaps,
                   lastRun, mvars, fvars>>

\* processVaultDeployments: progress.lastVaultFactoryBlock = currentBlock;
\* await saveProgress(progress); then fetchBalances starts
VaultFinish ==
    /\ pc = "v_loop"
    /\ idx > Len(allDeployments)
    /\ progress' = [progress EXCEPT !.lastVaultFactoryBlock = currentBlock]
    /\ progressFile' = SaveProgress(progress')
    /\ idx' = 1
    /\ pc' = "b_loop"
    /\ inFlight' = {}
    /\ UNCHANGED <<head, routerDeploymentsFile, vaultDeploymentsFile, env,
                   oracleData, currentBlock, plan, allDeployments, entity,
                   network, exitCode, errorLog, faults, bvars, gaps,
                   lastRun, mvars, fvars>>

\* the final saveProgress of the vault step throws: main().catch, exit(1)
VaultFinishSaveFails ==
    /\ pc = "v_loop"
    /\ idx > Len(allDeployments)
    /\ faults < MaxFaults
    /\ faults' = faults + 1
    /\ Exit("fatal")
    /\ UNCHANGED <<head, diskvars, bvars, gaps, mvars, fvars>>

----------------------------------------------------------------------------
(* steps/3-fetch-balances.ts                                               *)

\* what getVaultBalanceAndValue yields (token API amount, toFixed(6), DIA
\* price) and what the RPC fallback yields (totalAssets, formatUnits, the
\* price of getTokenPrice: 1 for a stablecoin symbol, else 0)
BalanceOf(vault, viaApi) ==
    IF vault = "0xV1"
    THEN IF viaApi
         THEN [balance |-> "500", balanceFormatted |-> "5.000000", decimals |-> 2,
               symbol |-> "AAA", price |-> 3, usdValue |-> 15]
         ELSE [balance |-> "500", balanceFormatted |-> "5.0", decimals |-> 2,
               symbol |-> "AAA", price |-> 0, usdValue |-> 0]
    ELSE IF viaApi
         THEN [balance |-> "700", balanceFormatted |-> "7.000000", decimals |-> 2,
               symbol |-> "USDC", price |-> 1, usdValue |-> 7]
         ELSE [balance |-> "700", balanceFormatted |-> "7.0", decimals |-> 2,
               symbol |-> "USDC", price |-> 1, usdValue |-> 7]

\* fetchBalances: `continue` for a vault that has a balance
BalanceSkip ==
    /\ pc = "b_loop"
    /\ idx <= Len(progress.vaultKeys)
    /\ "balance" \in DOMAIN progress.vaults[progress.vaultKeys[idx]]
    /\ idx' = idx + 1
    /\ inFlight' = {}
    /\ UNCHANGED <<head, diskvars, pc, env, oracleData, progress, currentBlock,
                   plan, allDeployments, entity, network, exitCode, errorLog,
                   faults, bvars, gaps,
                   lastRun, mvars, fvars>>

\* getVaultBalanceAndValue: the token API request and then the DIA price request
BalanceCalls(address) == {[op |-> "balance", contract |-> address]}

\* Promise.all([vault.totalAssets(), asset.decimals(), asset.symbol()])
BalanceRpcCalls(address, asset) ==
    {[op |-> "call", contract |-> address, method |-> "totalAssets"],
     [op |-> "call", contract |-> asset, method |-> "decimals"],
     [op |-> "call", contract |-> asset, method |-> "symbol"]}

\* the vault fetchBalances is at needs a balance
BalanceNeeded ==
    /\ pc = "b_loop"
    /\ idx <= Len(progress.vaultKeys)
    /\ "balance" \notin DOMAIN progress.vaults[progress.vaultKeys[idx]]

\* fetchBalances: the token API answers, the balance fields are set on the
\* record and saveProgress succeeds
BalanceFetch ==
    /\ BalanceNeeded
    /\ LET address == progress.vaultKeys[idx]
       IN /\ progress' = [progress EXCEPT
                !.vaults[address] = BalanceOf(address, TRUE) @@ @]
          /\ network' = network \cup BalanceCalls(address)
          /\ inFlight' = BalanceCalls(address)
    /\ progressFile' = SaveProgress(progress')
    /\ idx' = idx + 1
    /\ UNCHANGED <<head, routerDeploymentsFile, vaultDeploymentsFile, pc, env,
                   oracleData, currentBlock, plan, allDeployments, entity,
                   exitCode, errorLog, faults, bvars, gaps,
                   lastRun, mvars, fvars>>

\* fetchBalances: the token API yields nothing (getVaultBalanceAndValue
\* returns null), the three RPC calls answer, the fields are set and
\* saveProgress succeeds
BalanceFetchRpc ==
    /\ BalanceNeeded
    /\ faults < MaxFaults
    /\ faults' = faults + 1
    /\ LET address == progress.vaultKeys[idx]
           rpc == BalanceRpcCalls(address, progress.vaults[address].asset)
       IN /\ progress' = [progress EXCEPT
                !.vaults[address] = BalanceOf(address, FALSE) @@ @]
          /\ network' = network \cup BalanceCalls(address) \cup rpc
          /\ inFlight' = rpc
    /\ progressFile' = SaveProgress(progress')
    /\ idx' = idx + 1
    /\ UNCHANGED <<head, routerDeploymentsFile, vaultDeploymentsFile, pc, env,
                   oracleData, currentBlock, plan, allDeployments, entity,
                   exitCode, errorLog, bvars, gaps,
                   lastRun, mvars, fvars>>

\* fetchBalances: the balance fields are set and saveProgress throws inside
\* the try block; the catch block sets vaultInfo.error and the loop goes on
BalanceSaveFails ==
    /\ BalanceNeeded
    /\ faults < MaxFaults
    /\ faults' = faults + 1
    /\ LET address == progress.vaultKeys[idx]
       IN /\ progress' = [progress EXCEPT
                !.vaults[address] =
                    [error |-> "save"] @@ BalanceOf(address, TRUE) @@ @]
          /\ network' = network \cup BalanceCalls(address)
          /\ inFlight' = BalanceCalls(address)
          /\ errorLog' = errorLog \cup {[entity |-> address, error |-> "save"]}
    /\ idx' = idx + 1
    /\ UNCHANGED <<head, diskvars, pc, env, oracleData, currentBlock, plan,
                   allDeployments, entity, exitCode, bvars, gaps,
                   lastRun, mvars, fvars>>

\* fetchBalances: the token API yields nothing and the RPC fallback throws;
\* the catch block sets vaultInfo.error and nothing is saved
BalanceThrows ==
    /\ BalanceNeeded
    /\ faults < MaxFaults
    /\ faults' = faults + 1
    /\ LET address == progress.vaultKeys[idx]
           rpc == BalanceRpcCalls(address, progress.vaults[address].asset)
       IN /\ progress' = [progress EXCEPT
                !.vaults[address] = [error |-> "balance"] @@ @]
          /\ network' = network \cup BalanceCalls(address) \cup rpc
          /\ inFlight' = rpc
          /\ errorLog' = errorLog \cup {[entity |-> address, error |-> "balance"]}
    /\ idx' = idx + 1
    /\ UNCHANGED <<head, diskvars, pc, env, oracleData, currentBlock, plan,
                   allDeployments, entity, exitCode, bvars, gaps,
                   lastRun, mvars, fvars>>

\* fetchBalances returns; aggregateVendors writes the report; exit(0)
BalanceDone ==
    /\ pc = "b_loop"
    /\ idx > Len(progress.vaultKeys)
    /\ Exit("ok")
    /\ UNCHANGED <<head, diskvars, faults, bvars, gaps, mvars, fvars>>

----------------------------------------------------------------------------
(* The specifications                                                      *)

IdleBatchVars ==
    /\ call = [fromBlock |-> 0, toBlock |-> -1, batchSize |-> DEFAULT_BATCH_SIZE]
    /\ stack = <<>>
    /\ bstatus = "returned"
    /\ result = <<>>
    /\ okRanges = <<>>
    /\ dropped = <<>>
    /\ pause = "none"

\* the .env file: ROUTER_FACTORY_START_BLOCK and EVAULT_FACTORY_START_BLOCK,
\* each set or not
IdleMergeVars == cache = <<>> /\ fetched = <<>>

\* ret holds the returned value as its only element once the call returned
NotReturned == <<>>

IdleCallVars == args = [fn |-> "none"] /\ ret = NotReturned

Init ==
    /\ InitPipelineVars
    /\ IdleMergeVars
    /\ env \in [routerStart : StartBlockSettings, vaultStart : StartBlockSettings]
    /\ IdleBatchVars
    /\ IdleCallVars

Next ==
    \/ StartRun
    \/ RouterHead
    \/ RouterEvaluate
    \/ RouterConfigError
    \/ RouterFactory
    \/ RouterSkip
    \/ RouterQuery
    \/ RouterCommit
    \/ RouterCommitSaveFails
    \/ RouterDecodeThrows
    \/ RouterFinish
    \/ RouterFinishSaveFails
    \/ VaultHead
    \/ VaultEvaluate
    \/ VaultConfigError
    \/ VaultFactory
    \/ VaultUseCached
    \/ VaultCall
    \/ VaultCallThrows
    \/ VaultCommit
    \/ VaultCommitSaveFails
    \/ VaultFinish
    \/ VaultFinishSaveFails
    \/ BalanceSkip
    \/ BalanceFetch
    \/ BalanceFetchRpc
    \/ BalanceSaveFails
    \/ BalanceThrows
    \/ BalanceDone

Spec == Init /\ [][Next]_vars

\* the range resolution of both factory steps, from every combination of
\* checkpoint, deployment cache, start-block setting and head
CheckpointValues == {NoBlock, 1000, 51001}

RouterCaches ==
    {<<>>, <<[address |-> "0xR1", deploymentBlock |-> 900]>>,
     <<[address |-> "0xR1", deploymentBlock |-> 900],
       [address |-> "0xR2", deploymentBlock |-> 1050]>>}

VaultCaches ==
    {<<>>, <<[address |-> "0xV1", deploymentBlock |-> 920]>>,
     <<[address |-> "0xV1", deploymentBlock |-> 920],
       [address |-> "0xV2", deploymentBlock |-> 1070]>>}

InitResolve ==
    /\ head \in HeadValues
    /\ currentBlock = head
    /\ pc \in {"r_eval", "v_eval"}
    /\ \E r \in CheckpointValues, v \in CheckpointValues :
          /\ r <= head /\ v <= head
          /\ progress = [FreshProgress EXCEPT !.lastRouterFactoryBlock = r,
                                              !.lastVaultFactoryBlock = v]
    /\ progressFile = SaveProgress(progress)
    /\ routerDeploymentsFile \in RouterCaches
    /\ vaultDeploymentsFile \in VaultCaches
    /\ env \in [routerStart : StartBlockSettings, vaultStart : StartBlockSettings]
    /\ oracleData = [eulerOracles |-> EulerOracles, crossAnalysis |-> CrossAnalysis,
                     vaultDeployments |-> vaultDeploymentsFile]
    /\ plan = NoPlan
    /\ allDeployments = <<>>
    /\ idx = 1
    /\ entity = NoEntity
    /\ network = {[op |-> "getBlockNumber"]}
    /\ inFlight = {[op |-> "getBlockNumber"]}
    /\ lastRun = [completed |-> FALSE, errors |-> {}, data |-> FreshProgress]
    /\ exitCode = "running"
    /\ errorLog = {}
    /\ faults = 0
    /\ gaps = {}
    /\ IdleBatchVars
    /\ IdleCallVars
    /\ IdleMergeVars

NextResolve ==
    \/ RouterEvaluate
    \/ RouterConfigError
    \/ RouterFactory
    \/ VaultEvaluate
    \/ VaultConfigError
    \/ VaultFactory

SpecResolve == InitResolve /\ [][NextResolve]_vars

\* the process is killed between two steps of a run
Crash ==
    /\ pc # "idle"
    /\ faults < MaxFaults
    /\ faults' = faults + 1
    /\ Exit("crash")
    /\ UNCHANGED <<head, diskvars, bvars, gaps, mvars, fvars>>

\* the next step of the run is a saveProgress call
SavePoint ==
    \/ pc \in {"r_commit", "v_commit"}
    \/ pc \in {"r_loop", "v_loop"} /\ idx > Len(allDeployments)
    \/ BalanceNeeded

\* the progress object whose text the saveProgress call at hand writes
ProgressToSave ==
    IF pc = "r_commit" THEN MergeRouter(progress, entity, currentBlock, oracleData)
    ELSE IF pc = "v_commit"
    THEN MergeVault(progress, entity, currentBlock, oracleData)
    ELSE IF pc = "r_loop"
    THEN [progress EXCEPT !.lastRouterFactoryBlock = currentBlock]
    ELSE IF pc = "v_loop"
    THEN [progress EXCEPT !.lastVaultFactoryBlock = currentBlock]
    ELSE [progress EXCEPT !.vaults[progress.vaultKeys[idx]] =
             BalanceOf(progress.vaultKeys[idx], TRUE) @@ @]

\* the process is killed while fs.writeFile of saveProgress is writing
CrashInSave ==
    /\ pc # "idle"
    /\ SavePoint
    /\ faults < MaxFaults
    /\ faults' = faults + 1
    /\ progressFile' = TornFile(ProgressToSave)
    /\ Exit("crash")
    /\ UNCHANGED <<head, routerDeploymentsFile, vaultDeploymentsFile, bvars, gaps, mvars, fvars>>

NextCrash ==
    \/ Next
    \/ Crash
    \/ CrashInSave

SpecCrash == Init /\ [][NextCrash]_vars

\* one merge of the deployments a factory query yields into a cache: the
\* dedup loop of fetchRouters and fetchVaults on its own
MaxFetched == 2

MaxCacheLen == 4

DeploymentEntries ==
    {[address |-> "0xR1", deploymentBlock |-> 900],
     [address |-> "0xr1", deploymentBlock |-> 900],
     [address |-> "0xR2", deploymentBlock |-> 1050]}

RECURSIVE SeqsUpTo(_, _)
SeqsUpTo(S, n) ==
    IF n = 0 THEN {<<>>}
    ELSE LET shorter == SeqsUpTo(S, n - 1)
         IN shorter \cup {Append(q, x) : q \in shorter, x \in S}

NoDuplicateAddress(deployments) ==
    \A i, j \in 1..Len(deployments) :
       AddressToLowerCase(deployments[i].address)
          = AddressToLowerCase(deployments[j].address) => i = j

InitMerge ==
    /\ cache \in {q \in SeqsUpTo(DeploymentEntries, 2) : NoDuplicateAddress(q)}
    /\ fetched = <<>>
    /\ InitPipelineVars
    /\ env = [routerStart |-> NoBlock, vaultStart |-> NoBlock]
    /\ IdleBatchVars
    /\ IdleCallVars

\* fetchRouters / fetchVaults: the events of the factory query are merged
\* into the loaded cache
MergeFetched ==
    /\ \E newDeployments \in SeqsUpTo(DeploymentEntries, MaxFetched) :
          /\ Len(cache) + Len(newDeployments) <= MaxCacheLen
          /\ fetched' = newDeployments
          /\ cache' = MergeDeployments(cache, newDeployments)
    /\ UNCHANGED <<bvars, pvars, fvars>>

NextMerge == MergeFetched

SpecMerge == InitMerge /\ [][NextMerge]_vars

----------------------------------------------------------------------------
(* One call of normalizeVendorName or of getVendorForOracle, on enumerated *)
(* labels, registries, composite tables and known-vault lists              *)

\* the label with its first character in upper case
Capitalise(chars) ==
    [k \in 1..Len(chars) |->
        IF k = 1 /\ \E u \in DOMAIN UpperToLower : UpperToLower[u] = chars[1]
        THEN CHOOSE u \in DOMAIN UpperToLower : UpperToLower[u] = chars[1]
        ELSE chars[k]]

\* the words of the provider labels: every substring normalizeVendorName
\* looks for, and one it does not know
LabelWords ==
    {VendorPatterns[k].pattern : k \in 1..Len(VendorPatterns)}
        \cup {<<"u", "n", "k", "n", "o", "w", "n">>}

\* providerInfo: missing or empty, one word, or two words
Labels ==
    {<<>>}
        \cup {Capitalise(w) : w \in LabelWords}
        \cup {Capitalise(w) \o <<" ">> \o v : w, v \in LabelWords}

\* entries of euler-oracles.json: the two of the pipeline, an escrow entry
\* whose link is the zero address, and an entry without an address link
RegistryEntries ==
    {EulerOracles[1], EulerOracles[2],
     [fullAddress |-> ZeroAddress, providerInfo |-> <<>>],
     [fullAddress |-> Undefined, providerInfo |-> <<"P", "y", "t", "h">>]}

\* details of cross-oracle-analysis.json for the adapter 0xO2: resolved,
\* errored, without one leg name, without crossAddress
CrossDetails ==
    {CrossAnalysis[1],
     [CrossAnalysis[1] EXCEPT !.error = TRUE],
     [CrossAnalysis[1] EXCEPT !.baseCrossName = <<>>],
     [CrossAnalysis[1] EXCEPT !.crossQuoteName = <<>>],
     [CrossAnalysis[1] EXCEPT !.crossAddress = Undefined]}

\* vault-deployments.json: empty, a vault, and a vault whose address is the
\* adapter 0xO2 in another case
KnownVaults ==
    {<<>>,
     <<[address |-> "0xV1", deploymentBlock |-> 920]>>,
     <<[address |-> "0xV1", deploymentBlock |-> 920],
       [address |-> "0xo2", deploymentBlock |-> 1070]>>}

AdapterAddresses == {"0xO1", "0xO2", "0xo2", "0xO3", "0xV1", ZeroAddress}

InitVendor ==
    /\ \/ \E label \in Labels :
             args = [fn |-> "normalizeVendorName", providerInfo |-> label]
       \/ \E a \in AdapterAddresses, registry \in SeqsUpTo(RegistryEntries, MaxRegistry),
             cross \in {<<>>} \cup {<<c>> : c \in CrossDetails},
             vaults \in KnownVaults :
             args = [fn |-> "getVendorForOracle", adapterAddress |-> a,
                     oracleData |-> [eulerOracles |-> registry,
                                     crossAnalysis |-> cross,
                                     vaultDeployments |-> vaults]]
    /\ ret = NotReturned
    /\ IdleBatchVars
    /\ IdleMergeVars
    /\ InitPipelineVars
    /\ env = [routerStart |-> NoBlock, vaultStart |-> NoBlock]

NormalizeVendorNameCall ==
    /\ args.fn = "normalizeVendorName"
    /\ ret = NotReturned
    /\ ret' = <<NormalizeVendorName(args.providerInfo)>>
    /\ UNCHANGED <<args, bvars, pvars, mvars>>

GetVendorForOracleCall ==
    /\ args.fn = "getVendorForOracle"
    /\ ret = NotReturned
    /\ ret' = <<GetVendorForOracle(args.adapterAddress, args.oracleData)>>
    /\ UNCHANGED <<args, bvars, pvars, mvars>>

NextVendor == NormalizeVendorNameCall \/ GetVendorForOracleCall

SpecVendor == InitVendor /\ [][NextVendor]_vars

----------------------------------------------------------------------------
(* steps/3-fetch-balances.ts: aggregateVendors on enumerated vaults.       *)
(* A number is a binary floating-point value m * 2^e with a significand of *)
(* SignificandBits bits; division and addition round to nearest, ties to   *)
(* even, as the arithmetic of JavaScript numbers does.                     *)

FloatZero == [m |-> 0, e |-> 0]

\* the number nearest to (num / den) * 2^e, for positive num and den;
\* Scaled(t) is floor(num * 2^t / den) with the remainder and the divisor
RoundToFloat(num, den, e) ==
    LET Scaled(t) ==
            LET n == IF t >= 0 THEN num * 2^t ELSE num
                d == IF t >= 0 THEN den ELSE den * 2^(0 - t)
            IN [q |-> n \div d, r |-> n % d, d |-> d]
        s == CHOOSE t \in (0 - 16)..16 :
                 /\ 2^(SignificandBits - 1) <= Scaled(t).q
                 /\ Scaled(t).q < 2^SignificandBits
        x == Scaled(s)
        up == 2 * x.r > x.d \/ (2 * x.r = x.d /\ x.q % 2 = 1)
        q == IF up THEN x.q + 1 ELSE x.q
    IN IF q = 2^SignificandBits
       THEN [m |-> 2^(SignificandBits - 1), e |-> e - s + 1]
       ELSE [m |-> q, e |-> e - s]

\* x / n for a count n >= 1
FDiv(x, n) == IF x.m = 0 THEN FloatZero ELSE RoundToFloat(x.m, n, x.e)

\* x + y
FAdd(x, y) ==
    IF x.m = 0 THEN y
    ELSE IF y.m = 0 THEN x
    ELSE LET e == Min(x.e, y.e)
         IN RoundToFloat(x.m * 2^(x.e - e) + y.m * 2^(y.e - e), 1, e)

\* vaultInfo.vendors.forEach(...): totalUSD, vaultCount and vaults of each
\* vendor of one vault; vendorTVL lists its keys in insertion order
RECURSIVE AddShares(_, _, _)
AddShares(vendorTVL, vault, k) ==
    IF k > Len(vault.vendors) THEN vendorTVL
    ELSE LET vendor == vault.vendors[k]
             valuePerVendor == FDiv(vault.usdValue, Len(vault.vendors))
             old == IF \E j \in 1..Len(vendorTVL) : vendorTVL[j].vendor = vendor
                    THEN vendorTVL
                    ELSE Append(vendorTVL,
                                [vendor |-> vendor, totalUSD |-> FloatZero,
                                 vaultCount |-> 0, vaults |-> <<>>])
         IN AddShares(
                [j \in 1..Len(old) |->
                    IF old[j].vendor = vendor
                    THEN [old[j] EXCEPT
                             !.totalUSD = FAdd(@, valuePerVendor),
                             !.vaultCount = @ + 1,
                             !.vaults = Append(@, [address |-> vault.address,
                                                   value |-> valuePerVendor])]
                    ELSE old[j]],
                vault, k + 1)

\* aggregateVendors: the loop over Object.entries(progress.vaults); a vault
\* without usdValue has usdValue FloatZero
RECURSIVE AggregateVendors(_, _)
AggregateVendors(vaults, acc) ==
    IF vaults = <<>> THEN acc
    ELSE LET vaultInfo == vaults[1]
         IN IF vaultInfo.usdValue = FloatZero
            THEN AggregateVendors(Tail(vaults), acc)
            ELSE AggregateVendors(Tail(vaults),
                    [totalTVL |-> FAdd(acc.totalTVL, vaultInfo.usdValue),
                     vendorTVL |-> AddShares(acc.vendorTVL, vaultInfo, 1)])

\* one call on up to MaxVaults vaults: a usdValue is absent or zero, or a
\* number; the vendors of a vault are none, one, the two legs of a composite,
\* or three
InitAggregate ==
    LET UsdValues ==
            {FloatZero} \cup
                [m : 2^(SignificandBits - 1)..(2^SignificandBits - 1),
                 e : 0..MaxExponent]
        VendorLists ==
            {<<>>, <<"Chainlink">>, <<"Pyth", "RedStone">>,
             <<"Chainlink", "Pyth", "RedStone">>}
    IN /\ \E n \in 1..MaxVaults :
             \E usd \in [1..n -> UsdValues], vendors \in [1..n -> VendorLists] :
                args = [fn |-> "aggregateVendors",
                        vaults |-> [k \in 1..n |->
                                      [address |-> k, usdValue |-> usd[k],
                                       vendors |-> vendors[k]]]]
       /\ ret = NotReturned
       /\ IdleBatchVars
       /\ IdleMergeVars
       /\ InitPipelineVars
       /\ env = [routerStart |-> NoBlock, vaultStart |-> NoBlock]

AggregateVendorsCall ==
    /\ args.fn = "aggregateVendors"
    /\ ret = NotReturned
    /\ ret' = <<AggregateVendors(args.vaults,
                    [totalTVL |-> FloatZero, vendorTVL |-> <<>>])>>
    /\ UNCHANGED <<args, bvars, pvars, mvars>>

NextAggregate == AggregateVendorsCall

SpecAggregate == InitAggregate /\ [][NextAggregate]_vars

InitBatch ==
    /\ InitBatchVars
    /\ IdleCallVars
    /\ IdleMergeVars
    /\ InitPipelineVars
    /\ env = [routerStart |-> NoBlock, vaultStart |-> NoBlock]

SpecBatch == InitBatch /\ [][NextBatch]_vars

\* the call is one chain of awaits on a single thread: whenever it has a next
\* statement, that statement runs (a query resolves or rejects, a sleep ends)
SpecBatchLive == InitBatch /\ [][NextBatch]_vars /\ WF_vars(NextBatch)

----------------------------------------------------------------------------
(* Claims about queryEventsInBatches                                       *)

RECURSIVE EventsOfRanges(_)
EventsOfRanges(ranges) ==
    IF ranges = <<>> THEN <<>>
    ELSE QueryFilter(BatchLog, ranges[1][1], ranges[1][2])
            \o EventsOfRanges(Tail(ranges))

\* C1: started with the default batch size 10000, no event query is ever
\* issued with a batch size below the floor of 1000.
C1_NoQueryBelowFloor ==
    call.batchSize = DEFAULT_BATCH_SIZE =>
        \A i \in 1..Len(stack) :
            stack[i].pc = "query" => stack[i].batchSize >= RETRY_FLOOR

\* C2: queryEventsInBatches never raises to its caller; it returns the
\* events of the sub-ranges whose query succeeded, in the order queried.
C2_NeverRaises ==
    /\ bstatus # "raised"
    /\ bstatus = "returned" => result = EventsOfRanges(okRanges)

\* a call that returned although a range failed at every batch size, with
\* events of other ranges in its result
C2_Witness ==
    /\ bstatus = "returned"
    /\ dropped # <<>>
    /\ result # <<>>

\* the block numbers of a list of events never go down
Ascending(events) ==
    \A i, j \in 1..Len(events) :
        i < j => events[i].blockNumber <= events[j].blockNumber

\* C21: with every single query returning its events in ascending block
\* order, the events a call has collected, at every level of the recursion
\* and in the value it returns, are in non-decreasing block order, whichever
\* queries fail.
C21_EventsAscending ==
    /\ Ascending(result)
    /\ \A i \in 1..Len(stack) : Ascending(stack[i].allEvents)

\* a call that returned events of several blocks, some of them fetched by a
\* query of a halved batch size: a range shorter than the batch size of the
\* call that does not end at the end of the call's range
C21_Witness ==
    /\ bstatus = "returned"
    /\ Len(okRanges) >= 2
    /\ \E i \in 1..Len(okRanges) :
          /\ okRanges[i][2] - okRanges[i][1] + 1 < call.batchSize
          /\ okRanges[i][2] < call.toBlock
          /\ okRanges[i][1] > call.fromBlock
          /\ QueryFilter(BatchLog, okRanges[i][1], okRanges[i][2]) # <<>>
    /\ result[1].blockNumber < result[Len(result)].blockNumber

\* C22: between any two consecutive event queries of one call, a failed
\* query and the first halved retry after it included, the pause of
\* sleep(200) elapses: a query is issued only before any other or after a
\* pause that followed the previous one.
C22_EveryQueryDelayGated ==
    [][(stack # <<>> /\ Top(stack).pc = "query" /\ stack' # stack)
          => pause \in {"none", "elapsed"}]_vars

\* two block ranges share no block
DisjointRanges(r, s) == r[2] < s[1] \/ s[2] < r[1]

\* the ranges are pairwise disjoint and cover exactly [fromBlock, toBlock]
PartitionOf(ranges, fromBlock, toBlock) ==
    /\ \A r, s \in ranges : r # s => DisjointRanges(r, s)
    /\ \A r \in ranges :
          /\ fromBlock <= r[1] /\ r[1] <= r[2] /\ r[2] <= toBlock
          /\ r[1] = fromBlock \/ \E s \in ranges : s[2] + 1 = r[1]
          /\ r[2] = toBlock \/ \E s \in ranges : s[1] = r[2] + 1
    /\ fromBlock <= toBlock => ranges # {}

\* C34: the batch at hand of the outermost call is
\* [fromBlock + k*b, min(fromBlock + (k+1)*b - 1, toBlock)] for the batch
\* size b of the call; the ranges whose query succeeded are pairwise disjoint
\* and were queried once each, whichever queries fail; when the call has
\* returned, the ranges that succeeded and the ranges that were dropped
\* partition [fromBlock, toBlock], so that a call without a dropped range
\* (one without failures among them) has fetched every block exactly once.
C34_BatchPartition ==
    /\ \A i, j \in 1..Len(okRanges) :
          i # j => DisjointRanges(okRanges[i], okRanges[j])
    /\ (stack # <<>> /\ stack[1].pc # "while") =>
          LET k == (stack[1].currentBlock - call.fromBlock) \div call.batchSize
          IN /\ stack[1].currentBlock = call.fromBlock + k * call.batchSize
             /\ stack[1].endBlock =
                   Min(call.fromBlock + (k + 1) * call.batchSize - 1, call.toBlock)
    /\ bstatus = "returned" =>
          /\ PartitionOf(Range(okRanges) \cup Range(dropped),
                         call.fromBlock, call.toBlock)
          /\ Len(okRanges) + Len(dropped)
                = Cardinality(Range(okRanges) \cup Range(dropped))

\* a call over more blocks than its batch size has returned; a query of its
\* first batch failed, one retry succeeded and another was dropped
C34_Witness ==
    /\ bstatus = "returned"
    /\ call.toBlock - call.fromBlock + 1 > call.batchSize
    /\ dropped # <<>>
    /\ \E i \in 1..Len(okRanges) :
          /\ okRanges[i][2] < call.fromBlock + call.batchSize
          /\ okRanges[i][2] - okRanges[i][1] + 1 < call.batchSize
    /\ \E i \in 1..Len(okRanges) :
          okRanges[i][1] = call.fromBlock + call.batchSize

\* the number of activations a call with that batch size can nest: the
\* batch size is halved while it is above the floor
RECURSIVE RetryDepth(_)
RetryDepth(batchSize) ==
    IF batchSize > RETRY_FLOOR THEN 1 + RetryDepth(batchSize \div 2) ELSE 1

\* C35: every call of queryEventsInBatches comes to its end, whichever
\* queries fail, the case that every query fails included; the recursion is
\* never deeper than the halvings from the batch size of the call down to
\* the floor.
C35_Terminates ==
    /\ [](Len(stack) <= RetryDepth(call.batchSize))
    /\ <>(bstatus = "returned")

\* a call over the longest range has returned after every one of its queries
\* failed, at every batch size down to 625
C35_Witness ==
    /\ bstatus = "returned"
    /\ call.batchSize = DEFAULT_BATCH_SIZE
    /\ call.toBlock - call.fromBlock + 1 = MaxRangeLen
    /\ okRanges = <<>>
    /\ Len(dropped) = 4
    /\ result = <<>>

----------------------------------------------------------------------------
(* Claims about the three passes                                           *)

\* C3: a run that ends with the configuration error of a missing start block
\* has attempted no network call: the chain head was not fetched and no event
\* query was issued.
C3_ConfigErrorBeforeNetwork ==
    (pc = "idle" /\ exitCode = "config") => network = {}

\* the router of the current iteration has been processed before
RouterSeenBefore ==
    /\ pc = "r_loop"
    /\ idx <= Len(allDeployments)
    /\ allDeployments[idx].address \in DOMAIN progress.processedRouters

\* C4: a router processed before is skipped exactly when
\* currentBlock - lastProcessedBlock < RECHECK_INTERVAL_BLOCKS: the skip issues
\* no query and leaves the progress state, in memory and on disk, unchanged;
\* from the boundary on the router is queried from lastProcessedBlock + 1 to
\* the head.
C4_RouterRecheckScheduling ==
    [][RouterSeenBefore =>
         LET a == allDeployments[idx].address
             last == progress.processedRouters[a]
         IN IF currentBlock - last < RECHECK_INTERVAL_BLOCKS
            THEN /\ network' = network
                 /\ progress' = progress
                 /\ progressFile' = progressFile
                 /\ pc' = "r_loop" /\ idx' = idx + 1
            ELSE /\ pc' = "r_commit"
                 /\ entity'.address = a
                 /\ [op |-> "queryFilter", contract |-> a,
                     fromBlock |-> last + 1, toBlock |-> currentBlock]
                       \in network']_vars

\* the boundary: a router last processed at block 1000 is being re-queried
\* at head 51000
C4_Witness ==
    /\ pc = "r_commit"
    /\ entity.isRecheck
    /\ entity.queryFromBlock = 1001
    /\ currentBlock = 1000 + RECHECK_INTERVAL_BLOCKS

\* the vault of the current commit is one whose interval has not elapsed
VaultIsFresh ==
    /\ pc = "v_commit"
    /\ entity.address \in DOMAIN progress.processedVaults
    /\ currentBlock - progress.processedVaults[entity.address]
          < RECHECK_INTERVAL_BLOCKS

\* C5: the vault pass leaves the record and the processedVaults entry of a
\* vault whose interval has not elapsed unchanged.
C5_FreshVaultUntouched ==
    [][VaultIsFresh =>
         LET a == entity.address
         IN /\ progress'.processedVaults[a] = progress.processedVaults[a]
            /\ progress'.vaults[a] = progress.vaults[a]]_vars

\* a recheck of a router that has a record is committed
RouterRecheckCommits ==
    /\ pc = "r_commit"
    /\ entity.isRecheck
    /\ entity.address \in DOMAIN progress.routers
    /\ errorLog' = errorLog

\* C6: a committed recheck of a router keeps every adapter of the record and
\* every adapter of every asset pair, and its configEventsCount is the count
\* before plus the number of events fetched.
C6_RouterMergeAdditive ==
    [][RouterRecheckCommits =>
         LET a == entity.address
             old == progress.routers[a]
             new == progress'.routers[a]
         IN /\ Range(old.adapters) \subseteq Range(new.adapters)
            /\ \A k \in 1..Len(old.assetPairs) :
                  \E j \in 1..Len(new.assetPairs) :
                     /\ new.assetPairs[j].key = old.assetPairs[k].key
                     /\ Range(old.assetPairs[k].adapters)
                           \subseteq Range(new.assetPairs[j].adapters)
            /\ new.configEventsCount =
                  old.configEventsCount + Len(entity.configEvents)
            /\ progressFile'.data.routers[a] = new]_vars

\* the record of 0xR1 after a recheck that fetched the two later events
C6_Witness ==
    /\ progressFile.exists
    /\ "0xR1" \in DOMAIN progressFile.data.routers
    /\ progressFile.data.routers["0xR1"].configEventsCount = 3
    /\ progressFile.data.processedRouters["0xR1"] >= 51000
    /\ progressFile.data.routers["0xR1"].assetPairs[1].adapters = <<"0xO1", "0xO2">>

\* C7: every fact of a vault's record before the vault pass writes it is in
\* the record afterwards: the vendor names, and every other field with its
\* value.
C7_VaultFactsMonotone ==
    [][(pc = "v_commit" /\ entity.address \in DOMAIN progress.vaults) =>
         LET a == entity.address
             old == progress.vaults[a]
             new == progress'.vaults[a]
         IN /\ Range(old.vendors) \subseteq Range(new.vendors)
            /\ \A f \in DOMAIN old \ {"vendors", "vendorType"} :
                  f \in DOMAIN new /\ new[f] = old[f]]_vars

Checkpoints(p) ==
    [routers |-> p.processedRouters, vaults |-> p.processedVaults,
     routerFactory |-> p.lastRouterFactoryBlock,
     vaultFactory |-> p.lastVaultFactoryBlock]

NotBelow(old, new) ==
    /\ \A a \in DOMAIN old.routers :
          a \in DOMAIN new.routers /\ new.routers[a] >= old.routers[a]
    /\ \A a \in DOMAIN old.vaults :
          a \in DOMAIN new.vaults /\ new.vaults[a] >= old.vaults[a]
    /\ new.routerFactory >= old.routerFactory
    /\ new.vaultFactory >= old.vaultFactory

\* C8: with a chain head that never goes back, no write of the progress file
\* lowers a checkpoint: processedRouters, processedVaults,
\* lastRouterFactoryBlock and lastVaultFactoryBlock of the file are each at
\* least what they were.
C8_CheckpointsNeverDecrease ==
    [][NotBelow(Checkpoints(progressFile.data),
                Checkpoints(progressFile'.data))]_vars

\* a later run has moved the router checkpoints past those of the earlier run
C8_Witness ==
    /\ progressFile.exists
    /\ progressFile.data.lastVaultFactoryBlock # NoBlock
    /\ progressFile.data.lastRouterFactoryBlock
          > progressFile.data.lastVaultFactoryBlock
    /\ "0xR1" \in DOMAIN progressFile.data.processedRouters
    /\ progressFile.data.processedRouters["0xR1"]
          > progressFile.data.lastVaultFactoryBlock

\* the entities whose processing failed in this step with the given error
FailedNow(error) ==
    {x.entity : x \in {y \in errorLog' \ errorLog : y.error = error}}

\* C9: when processing a router or a vault fails with a decode error or a
\* rejected contract call, its record and its lastProcessedBlock in the
\* progress state are what they were before the attempt, and the loop goes on
\* with the next entity.
C9_FailureIsolation ==
    [][\A a \in FailedNow("decode") \cup FailedNow("call") :
          /\ progress'.routers = progress.routers
          /\ progress'.vaults = progress.vaults
          /\ progress'.processedRouters = progress.processedRouters
          /\ progress'.processedVaults = progress.processedVaults
          /\ pc' \in {"r_loop", "v_loop"}
          /\ idx' = idx + 1]_vars

\* C10: a router or vault whose processing failed in the router pass or the
\* vault pass has a record in the progress state that carries the error.
C10_ErrorRecorded ==
    \A x \in errorLog :
       x.error \in {"decode", "call"} =>
          \/ /\ x.entity \in DOMAIN progress.routers
             /\ "error" \in DOMAIN progress.routers[x.entity]
          \/ /\ x.entity \in DOMAIN progress.vaults
             /\ "error" \in DOMAIN progress.vaults[x.entity]

\* C11: a saveProgress call that fails ends the run at once: the step in which
\* a write of the progress file fails is the last of the run (exit code
\* "fatal") and no further entity is processed.
C11_SaveFailureFatal ==
    [][FailedNow("save") # {} => (pc' = "idle" /\ exitCode' = "fatal")]_vars

\* C12: no step of a run has more than one network call outstanding.
C12_OneCallOutstanding ==
    Cardinality(inFlight) <= 1

\* the cache a factory step reads and the checkpoint it resumes from
RouterRuleTwo ==
    /\ progress.lastRouterFactoryBlock = NoBlock
    /\ Len(routerDeploymentsFile) > 0

VaultRuleTwo ==
    /\ progress.lastVaultFactoryBlock = NoBlock
    /\ Len(vaultDeploymentsFile) > 0

\* C13: with no factory checkpoint and a non-empty deployment cache the
\* resolver answers shouldQueryFactory = true for both factories, from the
\* latest deployment block of the cache for routers and from
\* max(currentBlock - 10000, 0) for vaults.
C13_RuleTwoQueries ==
    /\ (pc = "r_factory" /\ RouterRuleTwo) =>
          /\ plan.shouldQueryFactory
          /\ plan.fromBlock =
                routerDeploymentsFile[Len(routerDeploymentsFile)].deploymentBlock
    /\ (pc = "v_factory" /\ VaultRuleTwo) =>
          /\ plan.shouldQueryFactory
          /\ plan.fromBlock = Max(currentBlock - 10000, 0)

\* C14: with a factory checkpoint the resolver answers fromBlock =
\* checkpoint + 1 and shouldQueryFactory = true whatever the cache holds, for
\* both factories; when checkpoint + 1 is past the head the factory step
\* issues no query and adds no deployment.
C14_RuleOneResumes ==
    [][/\ (pc = "r_eval" /\ progress.lastRouterFactoryBlock # NoBlock) =>
             /\ pc' = "r_factory"
             /\ plan' = [fromBlock |-> progress.lastRouterFactoryBlock + 1,
                         shouldQueryFactory |-> TRUE]
       /\ (pc = "v_eval" /\ progress.lastVaultFactoryBlock # NoBlock) =>
             /\ pc' = "v_factory"
             /\ plan' = [fromBlock |-> progress.lastVaultFactoryBlock + 1,
                         shouldQueryFactory |-> TRUE]
       /\ (pc = "r_factory" /\ plan.fromBlock > currentBlock) =>
             /\ network' = network /\ inFlight' = {}
             /\ allDeployments' = routerDeploymentsFile
             /\ routerDeploymentsFile' = routerDeploymentsFile
       /\ (pc = "v_factory" /\ plan.fromBlock > currentBlock) =>
             /\ network' = network /\ inFlight' = {}
             /\ allDeployments' = vaultDeploymentsFile
             /\ vaultDeploymentsFile' = vaultDeploymentsFile]_vars

\* the vault factory step has run from a checkpoint equal to the head, with
\* deployments in the cache
C14_Witness ==
    /\ pc = "v_loop"
    /\ progress.lastVaultFactoryBlock = currentBlock
    /\ plan = [fromBlock |-> currentBlock + 1, shouldQueryFactory |-> TRUE]
    /\ Len(allDeployments) = 2
    /\ network = {[op |-> "getBlockNumber"]}

\* C15: the deployment cache never holds two entries whose addresses are
\* equal without regard to case, whatever list of fetched deployments is
\* merged into it.
C15_CacheHasNoDuplicates ==
    NoDuplicateAddress(cache)

IsPrefix(old, new) ==
    /\ Len(old) <= Len(new)
    /\ SubSeq(new, 1, Len(old)) = old

SecondRunAtSameHeadEnds ==
    /\ pc = "b_loop"
    /\ pc' = "idle"
    /\ exitCode' = "ok"
    /\ lastRun.completed
    /\ lastRun.errors = {}
    /\ lastRun.data.lastRouterFactoryBlock = head
    /\ lastRun.data.lastVaultFactoryBlock = head

\* C17: when a run ends normally, with every entity processed, and the next
\* run sees the same chain head (hence no new events) and the progress file
\* the first run left, the persisted router and vault records after the
\* second run are those after the first.
C17_Idempotent ==
    [][SecondRunAtSameHeadEnds =>
          /\ progressFile'.data.routers = lastRun.data.routers
          /\ progressFile'.data.vaults = lastRun.data.vaults]_vars

\* the vault the balance pass is at had a balance in the progress file the
\* previous run left
BalanceWasStored ==
    /\ pc = "b_loop"
    /\ idx <= Len(progress.vaultKeys)
    /\ lastRun.completed
    /\ progress.vaultKeys[idx] \in DOMAIN lastRun.data.vaults
    /\ "balance" \in DOMAIN lastRun.data.vaults[progress.vaultKeys[idx]]

\* C18: a run issues no balance or price request for a vault whose balance
\* was stored at the end of the previous run.
C18_BalanceNotRefetched ==
    [][BalanceWasStored => network' = network]_vars

\* C19: a crash at any point of a run, a write of the progress file in
\* progress included, leaves a progress file from which the next load returns
\* what a load would have returned before the crash: the last committed
\* state.
C19_CrashKeepsCommitted ==
    [][(pc # "idle" /\ exitCode' = "crash") =>
          LoadProgress(progressFile') = LoadProgress(progressFile)]_vars

\* C20: a run that starts with no progress file or with one that is not JSON
\* starts from the fresh progress object, and starts: the load does not end
\* the run.
C20_LoadFallsBackToFresh ==
    (pc = "r_head" /\ ~(progressFile.exists /\ progressFile.parses)) =>
        /\ progress = FreshProgress
        /\ exitCode = "running"

\* a run has started from a progress file that a crash left torn
C20_Witness ==
    /\ pc = "r_head"
    /\ progressFile.exists
    /\ ~progressFile.parses
    /\ progressFile.data # FreshProgress
    /\ progress = FreshProgress

\* the checkpoint the running process holds for a factory or a router
CheckpointOf(contract) ==
    IF contract = "routerFactory" THEN progress.lastRouterFactoryBlock
    ELSE IF contract = "vaultFactory" THEN progress.lastVaultFactoryBlock
    ELSE IF contract \in DOMAIN progress.processedRouters
         THEN progress.processedRouters[contract]
         ELSE NoBlock

ResolvedNames(adapter) ==
    LET info == GetVendorForOracle(adapter, oracleData)
    IN IF info.vendor = "Cross" /\ info.underlying # <<>>
       THEN Range(info.underlying)
       ELSE {info.vendor}

\* the adapters recorded for the asset pairs of the router that name the
\* asset as asset0 or asset1, compared without regard to case
AdaptersFor(routerInfo, asset) ==
    UNION {Range(routerInfo.assetPairs[k].adapters) :
             k \in {j \in 1..Len(routerInfo.assetPairs) :
                      \/ AddressToLowerCase(routerInfo.assetPairs[j].key[1])
                            = AddressToLowerCase(asset)
                      \/ AddressToLowerCase(routerInfo.assetPairs[j].key[2])
                            = AddressToLowerCase(asset)}}

\* the vault pass writes the record of a vault whose router has a record
VaultOfKnownRouterCommits ==
    /\ pc = "v_commit"
    /\ pc' = "v_loop"
    /\ idx' = idx + 1
    /\ entity.routerAddress \in DOMAIN progress.routers
    /\ entity.address \in DOMAIN progress'.vaults

\* C29: the vendors written for a vault whose router has a record are,
\* without duplicates, exactly the union of the resolved names of all the
\* adapters recorded for the router's asset pairs that name the vault's asset.
C29_VendorsAreUnion ==
    [][VaultOfKnownRouterCommits =>
          LET vendors == progress'.vaults[entity.address].vendors
          IN /\ Range(vendors)
                   = UNION {ResolvedNames(a) :
                              a \in AdaptersFor(progress.routers[entity.routerAddress],
                                                entity.assetAddress)}
             /\ Cardinality(Range(vendors)) = Len(vendors)]_vars

----------------------------------------------------------------------------
(* Claims about the vendor mapping                                         *)

\* getVendorForOracle has returned
VendorReturned == args.fn = "getVendorForOracle" /\ ret # NotReturned

\* the address asked for is in the list of known vaults, in some case
IsKnownVault ==
    \E k \in 1..Len(args.oracleData.vaultDeployments) :
        AddressToLowerCase(args.oracleData.vaultDeployments[k].address)
            = AddressToLowerCase(args.adapterAddress)

\* the registry entries whose address is the one asked for, in some case
RegistryMatches ==
    SelectSeq(args.oracleData.eulerOracles,
              LAMBDA el : /\ el.fullAddress # Undefined
                          /\ AddressToLowerCase(el.fullAddress)
                                = AddressToLowerCase(args.adapterAddress))

\* C24: an address of the known-vault list, compared without regard to case,
\* resolves to vendor "Euler Vault", vendorType "vault", no underlying,
\* whatever the registry and the composite table hold for it.
C24_KnownVaultResolvesToVault ==
    (VendorReturned /\ IsKnownVault) =>
        ret[1] = [vendor |-> "Euler Vault", underlying |-> <<>>,
                  vendorType |-> "vault"]

\* the adapter 0xO2, which the registry labels Cross and the composite table
\* resolves, is listed as the vault 0xo2 and came out as a vault
C24_Witness ==
    /\ VendorReturned
    /\ args.adapterAddress = "0xO2"
    /\ \E k \in 1..Len(args.oracleData.vaultDeployments) :
          args.oracleData.vaultDeployments[k].address = "0xo2"
    /\ RegistryMatches # <<>>
    /\ args.oracleData.crossAnalysis = CrossAnalysis
    /\ ret[1].vendorType = "vault"

\* C25: the zero address, when it is no known vault and the registry holds
\* an entry whose address is the zero address, resolves to vendorType
\* "no oracle (escrow)".
C25_ZeroAddressEntryIsEscrow ==
    (/\ VendorReturned
     /\ args.adapterAddress = ZeroAddress
     /\ ~IsKnownVault
     /\ \E k \in 1..Len(args.oracleData.eulerOracles) :
           args.oracleData.eulerOracles[k].fullAddress = ZeroAddress)
    => ret[1].vendorType = "no oracle (escrow)"

\* C26: an address that is no known vault and that no registry entry
\* matches, compared without regard to case, resolves to vendorType "error"
\* with no underlying, and its vendor is not the name of any registry entry.
C26_UnknownAddressUnresolved ==
    (VendorReturned /\ ~IsKnownVault /\ RegistryMatches = <<>>) =>
        /\ ret[1].vendorType = "error"
        /\ ret[1].underlying = <<>>
        /\ \A k \in 1..Len(args.oracleData.eulerOracles) :
              ret[1].vendor
                  # NormalizeVendorName(args.oracleData.eulerOracles[k].providerInfo)

\* 0xO3 was looked up in a registry of two entries with labels, neither of
\* them for 0xO3, and came out unresolved
C26_Witness ==
    /\ VendorReturned
    /\ args.adapterAddress = "0xO3"
    /\ args.oracleData.eulerOracles = <<EulerOracles[1], EulerOracles[2]>>
    /\ ret[1].vendorType = "error"

\* the composite-table entries for the address asked for
CompositeMatches ==
    SelectSeq(args.oracleData.crossAnalysis,
              LAMBDA c : /\ c.crossAddress # Undefined
                         /\ AddressToLowerCase(c.crossAddress)
                               = AddressToLowerCase(args.adapterAddress))

\* C27: for an address whose registry label normalises to "Cross", the
\* underlying is exactly the two normalised leg names when the composite
\* table has an entry without error that names both legs; when the entry is
\* missing, has an error or lacks a leg name, the underlying is empty.
C27_CompositeResolution ==
    (VendorReturned /\ ret[1].vendor = "Cross") =>
        IF /\ CompositeMatches # <<>>
           /\ ~CompositeMatches[1].error
           /\ CompositeMatches[1].baseCrossName # <<>>
           /\ CompositeMatches[1].crossQuoteName # <<>>
        THEN ret[1].underlying
                = <<NormalizeVendorName(CompositeMatches[1].baseCrossName),
                    NormalizeVendorName(CompositeMatches[1].crossQuoteName)>>
        ELSE ret[1].underlying = <<>>

\* the name of the first pattern of the table that the lower-cased label
\* contains, "Other" when it contains none
FirstMatch(label) ==
    LET hits == {k \in 1..Len(VendorPatterns) :
                    Includes(ToLowerCase(label), VendorPatterns[k].pattern)}
    IN IF hits = {} THEN "Other"
       ELSE VendorPatterns[CHOOSE k \in hits : \A j \in hits : k <= j].name

\* C28: for every label normalizeVendorName returns the name of the first
\* pattern, in the order euler vault, chainlink, redstone / red stone, pyth,
\* pendle, chronicle, midas, resolv, idle, mev capital, cross, fixed rate,
\* rate provider, lido fundamental, that the lower-cased label contains, and
\* "Other" when it contains none.
C28_FirstMatchWins ==
    (args.fn = "normalizeVendorName" /\ ret # NotReturned) =>
        ret[1] = FirstMatch(args.providerInfo)

\* C28 as amended: the same for every label that is not empty; a missing or
\* empty label yields "no oracle (escrow)".
C28_FirstMatchWinsNonEmpty ==
    (args.fn = "normalizeVendorName" /\ ret # NotReturned) =>
        ret[1] = IF args.providerInfo = <<>> THEN "no oracle (escrow)"
                 ELSE FirstMatch(args.providerInfo)

\* the label "Pyth chainlink" holds a later pattern of the table before an
\* earlier one and came out as the earlier
C28_Witness ==
    /\ args.fn = "normalizeVendorName"
    /\ ret = <<"Chainlink">>
    /\ args.providerInfo
          = <<"P", "y", "t", "h", " ", "c", "h", "a", "i", "n", "l", "i", "n", "k">>

----------------------------------------------------------------------------
(* Claims about the aggregation                                            *)

\* the sum of a list of numbers, added from left to right
RECURSIVE FSum(_)
FSum(xs) ==
    IF xs = <<>> THEN FloatZero
    ELSE FAdd(FSum(SubSeq(xs, 1, Len(xs) - 1)), xs[Len(xs)])

\* the shares recorded for a vault, over all vendors
RECURSIVE SharesOf(_, _)
SharesOf(vendorTVL, address) ==
    IF vendorTVL = <<>> THEN <<>>
    ELSE LET mine == SelectSeq(vendorTVL[1].vaults,
                               LAMBDA v : v.address = address)
         IN [k \in 1..Len(mine) |-> mine[k].value]
               \o SharesOf(Tail(vendorTVL), address)

\* every vault with a usdValue has at least one vendor
EveryValuedVaultHasVendors ==
    \A k \in 1..Len(args.vaults) :
        args.vaults[k].usdValue # FloatZero => args.vaults[k].vendors # <<>>

\* C30: when every vault with a non-zero usdValue has N >= 1 vendors, the N
\* shares recorded for each such vault add up to its usdValue, and the
\* totalUSD of all vendors add up to totalTVL.
C30_EvenSplitConservesValue ==
    (args.fn = "aggregateVendors" /\ ret # NotReturned
        /\ EveryValuedVaultHasVendors)
    => /\ \A k \in 1..Len(args.vaults) :
             args.vaults[k].usdValue # FloatZero =>
                 FSum(SharesOf(ret[1].vendorTVL, args.vaults[k].address))
                    = args.vaults[k].usdValue
       /\ FSum([j \in 1..Len(ret[1].vendorTVL) |-> ret[1].vendorTVL[j].totalUSD])
             = ret[1].totalTVL

----------------------------------------------------------------------------
(* Claims about checkpoints, ranges and resumption                         *)

\* every checkpoint of a progress object is at most h
CheckpointsAtMost(p, h) ==
    /\ \A a \in DOMAIN p.processedRouters : p.processedRouters[a] <= h
    /\ \A a \in DOMAIN p.processedVaults : p.processedVaults[a] <= h
    /\ p.lastRouterFactoryBlock <= h
    /\ p.lastVaultFactoryBlock <= h

\* C31: with a chain head that never goes back, every checkpoint of the
\* progress file (each processedRouters and processedVaults entry,
\* lastRouterFactoryBlock and lastVaultFactoryBlock) is at most the chain head
\* at the moment it is written, and so at any later moment.
C31_CheckpointAtMostHead ==
    /\ CheckpointsAtMost(progressFile.data, head)
    /\ CheckpointsAtMost(progress, head)

\* the vault pass of a run has written checkpoints equal to the head it
\* fetched, next to a router checkpoint written at an earlier head
C31_Witness ==
    /\ progressFile.exists
    /\ progressFile.data.lastVaultFactoryBlock = head
    /\ "0xV1" \in DOMAIN progressFile.data.processedVaults
    /\ progressFile.data.processedVaults["0xV1"] = head
    /\ "0xR1" \in DOMAIN progressFile.data.processedRouters
    /\ progressFile.data.processedRouters["0xR1"] < head

\* the block the deployment cache records for a router
CachedDeploymentBlock(a) ==
    LET k == CHOOSE j \in 1..Len(routerDeploymentsFile) :
                 routerDeploymentsFile[j].address = a
    IN routerDeploymentsFile[k].deploymentBlock

\* the ConfigSet query of a router over the range
RangeQuery(a, fromBlock, toBlock) ==
    [op |-> "queryFilter", contract |-> a,
     fromBlock |-> fromBlock, toBlock |-> toBlock]

\* C32: a router that has no lastProcessedBlock is queried over
\* [deploymentBlock, currentBlock], a router due for recheck over
\* [lastProcessedBlock + 1, currentBlock]; the commit of the pass stores
\* currentBlock as its lastProcessedBlock; and whenever the stored
\* lastProcessedBlock of a router changes from c to c' the run has queried
\* the router over exactly [c + 1, c'] (over [deploymentBlock, c'] when there
\* was none), so the ranges of the passes that moved it are contiguous and
\* pairwise disjoint.
C32_RouterRangesContiguous ==
    [][/\ (pc = "r_loop" /\ pc' = "r_commit") =>
             LET a == allDeployments[idx].address
             IN inFlight' =
                   {RangeQuery(a,
                       IF a \in DOMAIN progress.processedRouters
                       THEN progress.processedRouters[a] + 1
                       ELSE allDeployments[idx].deploymentBlock,
                       currentBlock)}
       /\ (pc = "r_commit" /\ errorLog' = errorLog) =>
             progressFile'.data.processedRouters[entity.address] = currentBlock
       /\ \A a \in DOMAIN progressFile'.data.processedRouters :
             LET old == progressFile.data.processedRouters
                 new == progressFile'.data.processedRouters[a]
             IN (a \notin DOMAIN old \/ old[a] # new) =>
                   RangeQuery(a,
                       IF a \in DOMAIN old THEN old[a] + 1
                       ELSE CachedDeploymentBlock(a),
                       new) \in network']_vars

\* the recheck of 0xR1, last processed at block 1000, has been committed: the
\* run queried it from block 1001 to its head and stored the head
C32_Witness ==
    /\ pc = "r_loop"
    /\ currentBlock >= 1000 + RECHECK_INTERVAL_BLOCKS
    /\ RangeQuery("0xR1", 1001, currentBlock) \in network
    /\ progressFile.exists
    /\ "0xR1" \in DOMAIN progressFile.data.processedRouters
    /\ progressFile.data.processedRouters["0xR1"] = currentBlock
    /\ progressFile.data.routers["0xR1"].configEventsCount >= 1

\* C33: at the start of each entity's processing, in the router, vault and
\* balance pass, after a success as after an error, the progress the file
\* holds is the in-memory progress: every mutation of a record or of a
\* checkpoint made for the entity before has been saved.
C33_SavedBeforeNextEntity ==
    pc \in {"r_loop", "v_loop", "b_loop"} => LoadProgress(progressFile) = progress

\* the addresses of a deployment cache
CachedAddresses(deployments) ==
    {deployments[k].address : k \in 1..Len(deployments)}

\* every deployment event of the log from the start block up to the
\* checkpoint is in the cache
DiscoveredUpTo(log, field, startBlock, checkpoint, deployments) ==
    \A k \in 1..Len(log) :
        (startBlock <= log[k].blockNumber /\ log[k].blockNumber <= checkpoint)
        => log[k][field] \in CachedAddresses(deployments)

\* C36: as long as no event query has failed, the persisted deployment cache
\* of a factory holds every deployment event of that factory from the
\* configured start block up to the persisted factory checkpoint, whatever
\* checkpoint and cache the runs started from.
C36_DiscoveryComplete ==
    gaps = {} =>
        /\ DiscoveredUpTo(RouterFactoryLog, "router", env.routerStart,
                          progressFile.data.lastRouterFactoryBlock,
                          routerDeploymentsFile)
        /\ DiscoveredUpTo(VaultFactoryLog, "proxy", env.vaultStart,
                          progressFile.data.lastVaultFactoryBlock,
                          vaultDeploymentsFile)

\* C37: the stored processedVaults entry of a vault changes only in a run that
\* fetched the vault's oracle and asset from the chain, so that it is the
\* head of the last run that did; and a cached vault whose entry lies
\* RECHECK_INTERVAL_BLOCKS or more below the head of the run is fetched from
\* the chain by that run.
C37_VaultStalenessBounded ==
    [][/\ \A v \in DOMAIN progressFile'.data.processedVaults :
             LET old == progressFile.data.processedVaults
             IN (v \notin DOMAIN old
                    \/ old[v] # progressFile'.data.processedVaults[v])
                => VaultCalls(v) \subseteq network'
       /\ (/\ pc = "v_loop"
           /\ idx <= Len(allDeployments)
           /\ allDeployments[idx].address \in DOMAIN progress.processedVaults
           /\ currentBlock - progress.processedVaults[allDeployments[idx].address]
                 >= RECHECK_INTERVAL_BLOCKS)
          => VaultCalls(allDeployments[idx].address) \subseteq network']_vars

\* the oracles of the events that name the asset pair, in event order
RECURSIVE OraclesFor(_, _)
OraclesFor(events, key) ==
    IF events = <<>> THEN <<>>
    ELSE (IF <<events[1].asset0, events[1].asset1>> = key
          THEN <<events[1].oracle>> ELSE <<>>)
            \o OraclesFor(Tail(events), key)

\* C38: as long as no event query has failed, the stored configEventsCount of
\* a router is the number of its ConfigSet events in blocks
\* [deploymentBlock, processedRouters[router]], and the stored adapter list of
\* each asset pair holds the oracle of each of those events that names the
\* pair exactly once.
C38_NoDoubleCounting ==
    gaps = {} =>
        \A r \in DOMAIN progressFile.data.routers :
            LET rec == progressFile.data.routers[r]
                events == QueryFilter(ConfigSetLog(r), rec.deploymentBlock,
                                      progressFile.data.processedRouters[r])
            IN /\ rec.configEventsCount = Len(events)
               /\ \A k \in 1..Len(rec.assetPairs) :
                     rec.assetPairs[k].adapters
                        = OraclesFor(events, rec.assetPairs[k].key)
               /\ \A k \in 1..Len(events) :
                     \E j \in 1..Len(rec.assetPairs) :
                        rec.assetPairs[j].key
                           = <<events[k].asset0, events[k].asset1>>

\* C39: a run that was interrupted (killed between two steps, or ended by a
\* failed write) loses nothing: whenever a later run has ended normally and
\* no event query has failed, each deployment cache holds, once each and in
\* block order, exactly the deployments of its factory from the configured
\* start block up to the persisted factory checkpoint, as after an
\* uninterrupted run at that head.
C39_ResumptionLosesNothing ==
    (gaps = {} /\ pc = "idle" /\ exitCode = "ok") =>
        /\ routerDeploymentsFile =
              RouterDeploymentsOf(
                  QueryFilter(RouterFactoryLog, env.routerStart,
                              progressFile.data.lastRouterFactoryBlock))
        /\ vaultDeploymentsFile =
              VaultDeploymentsOf(
                  QueryFilter(VaultFactoryLog, env.vaultStart,
                              progressFile.data.lastVaultFactoryBlock))

\* the previous run ran to its end and logged an error of one of these kinds
\* for the entity
FailedInLastRun(a, kinds) ==
    /\ lastRun.completed
    /\ \E x \in lastRun.errors : x.entity = a /\ x.error \in kinds

\* C40: a router or vault whose processing failed in a run is attempted again
\* by the next run, whatever the recheck interval: the router is queried
\* again, from its deploymentBlock when it had not been processed before the
\* failure and from lastProcessedBlock + 1 otherwise, and the vault's oracle
\* and asset are fetched again.
C40_FailedEntityRetried ==
    [][/\ (/\ pc = "r_loop"
           /\ idx <= Len(allDeployments)
           /\ FailedInLastRun(allDeployments[idx].address, {"decode", "save"}))
          => LET a == allDeployments[idx].address
                 stored == lastRun.data.processedRouters
             IN inFlight' =
                   {RangeQuery(a,
                       IF a \in DOMAIN stored THEN stored[a] + 1
                       ELSE allDeployments[idx].deploymentBlock,
                       currentBlock)}
       /\ (/\ pc = "v_loop"
           /\ idx <= Len(allDeployments)
           /\ FailedInLastRun(allDeployments[idx].address, {"call"}))
          => VaultCalls(allDeployments[idx].address) \subseteq network']_vars

====
